---- MODULE Spec2Model ----
(***************************************************************************)
(* Via Labs V4 SDK: the canonical message codec (encoding.ts), the message *)
(* hasher and signature assembler (signatures.ts) and the transaction      *)
(* orchestrator (sdk.ts: executeWithRetry, executeTransaction,             *)
(* executeV0Transaction and the message operations).                       *)
(*                                                                         *)
(* Byte strings (Buffer) are sequences of numbers 0..255.  Big numbers     *)
(* (bn.js BN) are records [negative, mag] where mag is the magnitude in    *)
(* base 256, most significant digit first, without leading zeros.  Text    *)
(* (error messages) is TLA+ strings.                                       *)
(***************************************************************************)
EXTENDS Integers, Sequences, FiniteSets, TLC

VARIABLES
    (* codec harness: one encode / decode experiment *)
    cmsg,       \* the message handed to encodeViaMessage
    cenc,       \* result of encodeViaMessage(cmsg), or NoValue
    cbuf,       \* [bytes, how]: the buffer handed to decodeViaMessage and
                \* how it was derived from the encoding, or NoValue
    cdec,       \* result of decodeViaMessage(cbuf), or NoValue
    cpda,       \* one address derivation: [fn, registryType, chainId, txId, result],
                \* or NoValue
    (* orchestrator: one ViaLabsSDK instance and the call in progress *)
    lookupTableAccount, \* this.lookupTableAccount (NoValue is null)
    pc,         \* the await the call in progress is suspended at
    call,       \* the public operation called and its arguments
    instructions, \* the instruction list built by the call
    attempt,    \* executeWithRetry: loop variable attempt
    lastError,  \* executeWithRetry: lastError
    cur,        \* closure locals: recentBlockhash and signature
    sent,       \* the envelopes handed to the network by this call, in order
    trace,      \* history of this call: closure invocations, completed
                \* network calls with their outcome, caught errors, sleeps
    result,     \* outcome of the call: NoValue while running
    loader      \* a loadLookupTable call made while the call above is in
                \* progress: [pc, result, log]

codecVars == <<cmsg, cenc, cbuf, cdec, cpda>>
sdkVars == <<lookupTableAccount, pc, call, instructions, attempt,
             lastError, cur, sent, trace, result, loader>>
vars == <<cmsg, cenc, cbuf, cdec, cpda, lookupTableAccount, pc, call,
          instructions, attempt, lastError, cur, sent, trace, result, loader>>

\* null / undefined
NoValue == [none |-> TRUE]

\* a PublicKey that is not derived from seeds
Address(name) == [address |-> name]

(***************************************************************************)
(* Text helpers: String.prototype.toLowerCase, String.prototype.includes   *)
(* and number-to-decimal conversion of template literals.                  *)
(***************************************************************************)
UpperChars == "ABCDEFGHIJKLMNOPQRSTUVWXYZ"
LowerChars == "abcdefghijklmnopqrstuvwxyz"

CharAt(s, i) == SubSeq(s, i, i)

LowerOf ==
    [c \in {CharAt(UpperChars, k) : k \in 1..Len(UpperChars)} |->
        CharAt(LowerChars, CHOOSE k \in 1..Len(UpperChars) : CharAt(UpperChars, k) = c)]

LowerChar(c) == IF c \in DOMAIN LowerOf THEN LowerOf[c] ELSE c

RECURSIVE ToLowerCase(_)
ToLowerCase(s) ==
    IF Len(s) = 0 THEN ""
    ELSE LowerChar(CharAt(s, 1)) \o ToLowerCase(SubSeq(s, 2, Len(s)))

Includes(hay, needle) ==
    \E i \in 1..(Len(hay) - Len(needle) + 1) :
        SubSeq(hay, i, i + Len(needle) - 1) = needle

RECURSIVE Dec(_)
Dec(n) ==
    IF n < 10 THEN CharAt("0123456789", n + 1)
    ELSE Dec(n \div 10) \o CharAt("0123456789", (n % 10) + 1)

(***************************************************************************)
(* Byte-string helpers.                                                    *)
(***************************************************************************)
Zeros(n) == [i \in 1..n |-> 0]

Reverse(s) == [i \in 1..Len(s) |-> s[Len(s) + 1 - i]]

\* Buffer.slice(start, end) with 0-based start (inclusive) and end (exclusive)
Slice(buf, start, end) == SubSeq(buf, start + 1, end)

(***************************************************************************)
(* bn.js                                                                   *)
(***************************************************************************)
BNByteLength(bn) == Len(bn.mag)

\* bn.toArrayLike(Buffer, 'le', length): the magnitude, least significant
\* byte first, zero-padded at the high end; throws when it does not fit
BNFits(bn, length) == BNByteLength(bn) <= length

\* variant: zero-padded at the low end
ToArrayLikePaddedLow(bn, length) ==
    Zeros(length - BNByteLength(bn)) \o Reverse(bn.mag)

ToArrayLikeLE(bn, length) ==
    Reverse(bn.mag) \o Zeros(length - BNByteLength(bn))

\* number of leading zero digits of a most-significant-first digit string
RECURSIVE LeadingZeros(_)
LeadingZeros(s) ==
    IF Len(s) = 0 \/ s[1] # 0 THEN 0 ELSE 1 + LeadingZeros(Tail(s))

\* new BN(bytes, 'le')
BNFromLE(bytes) ==
    LET be == Reverse(bytes)
    IN [negative |-> FALSE, mag |-> SubSeq(be, LeadingZeros(be) + 1, Len(be))]

(***************************************************************************)
(* encoding.ts: the canonical message codec.                               *)
(***************************************************************************)
MAX_SENDER_SIZE == 64
MAX_RECIPIENT_SIZE == 64
MAX_ON_CHAIN_DATA == 1024
MAX_OFF_CHAIN_DATA == 1024

Ok(v) == [ok |-> TRUE, value |-> v]
Throw(msg) == [ok |-> FALSE, error |-> msg]

\* variant: most significant byte first
WriteUInt32BE(n) ==
    <<(n \div 16777216) % 256, (n \div 65536) % 256, (n \div 256) % 256, n % 256>>

\* lengthBuffer.writeUInt32LE(n)
WriteUInt32LE(n) ==
    <<n % 256, (n \div 256) % 256, (n \div 65536) % 256, (n \div 16777216) % 256>>

\* buffer.readUInt32LE(offset), offset 0-based
ReadUInt32LE(buffer, offset) ==
    buffer[offset + 1] + 256 * buffer[offset + 2]
        + 65536 * buffer[offset + 3] + 16777216 * buffer[offset + 4]

encodeLengthPrefixed(data) == WriteUInt32LE(Len(data)) \o data

\* variant: the bound itself is rejected
ExceedsMaxInclusive(length, max) == length >= max

\* the size checks of encodeViaMessage: field.length > MAX
ExceedsMax(length, max) == length > max

encodeViaMessage(txId, sourceChainId, destChainId, sender, recipient, onChainData, offChainData) ==
    IF ExceedsMax(Len(sender), MAX_SENDER_SIZE)
    THEN Throw("Sender too long: " \o Dec(Len(sender)) \o " bytes (max "
               \o Dec(MAX_SENDER_SIZE) \o ")")
    ELSE IF ExceedsMax(Len(recipient), MAX_RECIPIENT_SIZE)
    THEN Throw("Recipient too long: " \o Dec(Len(recipient)) \o " bytes (max "
               \o Dec(MAX_RECIPIENT_SIZE) \o ")")
    ELSE IF ExceedsMax(Len(onChainData), MAX_ON_CHAIN_DATA)
    THEN Throw("On-chain data too large: " \o Dec(Len(onChainData)) \o " bytes (max "
               \o Dec(MAX_ON_CHAIN_DATA) \o ")")
    ELSE IF ExceedsMax(Len(offChainData), MAX_OFF_CHAIN_DATA)
    THEN Throw("Off-chain data too large: " \o Dec(Len(offChainData)) \o " bytes (max "
               \o Dec(MAX_OFF_CHAIN_DATA) \o ")")
    ELSE IF ~BNFits(txId, 16) \/ ~BNFits(sourceChainId, 8) \/ ~BNFits(destChainId, 8)
    THEN Throw("byte array longer than desired length")
    ELSE Ok(ToArrayLikeLE(txId, 16)
            \o ToArrayLikeLE(sourceChainId, 8)
            \o ToArrayLikeLE(destChainId, 8)
            \o encodeLengthPrefixed(sender)
            \o encodeLengthPrefixed(recipient)
            \o encodeLengthPrefixed(onChainData)
            \o encodeLengthPrefixed(offChainData))

EncodeMsg(m) ==
    encodeViaMessage(m.txId, m.sourceChainId, m.destChainId, m.sender,
                     m.recipient, m.onChainData, m.offChainData)

\* the readBytes closure of decodeViaMessage; the value carries the new offset
readBytes(encoded, offset, length, fieldName) ==
    IF offset + length > Len(encoded)
    THEN Throw("Buffer too short: cannot read " \o fieldName \o " (need "
               \o Dec(length) \o " bytes at offset " \o Dec(offset) \o ", have "
               \o Dec(Len(encoded) - offset) \o ")")
    ELSE Ok([data |-> Slice(encoded, offset, offset + length),
             offset |-> offset + length])

decodeLengthPrefixed(buffer, offset, fieldName) ==
    IF offset + 4 > Len(buffer)
    THEN Throw("Buffer too short: cannot read " \o fieldName
               \o " length prefix at offset " \o Dec(offset))
    ELSE LET length == ReadUInt32LE(buffer, offset)
             dataOffset == offset + 4
         IN IF dataOffset + length > Len(buffer)
            THEN Throw("Buffer too short: cannot read " \o fieldName \o " data (need "
                       \o Dec(length) \o " bytes at offset " \o Dec(dataOffset)
                       \o ", have " \o Dec(Len(buffer) - dataOffset) \o ")")
            ELSE Ok(Slice(buffer, dataOffset, dataOffset + length))

\* variant: only an overrun is reported
HasExtraDataOverrun(offset, length) == offset > length

\* the final check of decodeViaMessage: offset !== encoded.length
HasExtraData(offset, length) == offset # length

decodeViaMessage(encoded) ==
    LET r1 == readBytes(encoded, 0, 16, "txId") IN
    IF ~r1.ok THEN r1 ELSE
    LET r2 == readBytes(encoded, r1.value.offset, 8, "sourceChainId") IN
    IF ~r2.ok THEN r2 ELSE
    LET r3 == readBytes(encoded, r2.value.offset, 8, "destChainId") IN
    IF ~r3.ok THEN r3 ELSE
    LET o4 == r3.value.offset
        sender == decodeLengthPrefixed(encoded, o4, "sender") IN
    IF ~sender.ok THEN sender ELSE
    LET o5 == o4 + 4 + Len(sender.value)
        recipient == decodeLengthPrefixed(encoded, o5, "recipient") IN
    IF ~recipient.ok THEN recipient ELSE
    LET o6 == o5 + 4 + Len(recipient.value)
        onChainData == decodeLengthPrefixed(encoded, o6, "onChainData") IN
    IF ~onChainData.ok THEN onChainData ELSE
    LET o7 == o6 + 4 + Len(onChainData.value)
        offChainData == decodeLengthPrefixed(encoded, o7, "offChainData") IN
    IF ~offChainData.ok THEN offChainData ELSE
    LET offset == o7 + 4 + Len(offChainData.value) IN
    IF HasExtraData(offset, Len(encoded))
    THEN Throw("Buffer has extra data: decoded " \o Dec(offset)
               \o " bytes but buffer is " \o Dec(Len(encoded)) \o " bytes")
    ELSE Ok([txId |-> BNFromLE(r1.value.data),
             sourceChainId |-> BNFromLE(r2.value.data),
             destChainId |-> BNFromLE(r3.value.data),
             sender |-> sender.value,
             recipient |-> recipient.value,
             onChainData |-> onChainData.value,
             offChainData |-> offChainData.value])

(***************************************************************************)
(* Codec harness: encode one message drawn from CodecMessages, then decode *)
(* the encoding itself, a truncation of it, an extension of it, or a copy  *)
(* with one length prefix changed; a message that is refused is put on the *)
(* wire by a peer and decoded.                                             *)
(***************************************************************************)
BN(digits) == [negative |-> FALSE, mag |-> digits]

Fill(n, seed) == [i \in 1..n |-> (seed + 7 * i) % 256]

\* number of distinct byte patterns tried for the variable fields
NumFills == 1
\* largest number of bytes appended to an encoding
MaxExtra == 2

\* (txId, sourceChainId, destChainId): 0, 1, 256, 43113, 9999999999999999999,
\* 2^64 - 1, 2^128 - 1 and, out of range, 2^64 and 2^128
CodecInts ==
    { <<BN(<<1>>), BN(<<168, 105>>), BN(<<138, 199, 35, 4, 137, 231, 255, 255>>)>>,
      <<BN(<<>>), BN(<<1, 0>>), BN(<<>>)>>,
      <<BN([i \in 1..16 |-> 255]), BN([i \in 1..8 |-> 255]), BN(<<1>>)>>,
      <<BN(<<1>> \o Zeros(16)), BN(<<1>>), BN(<<2>>)>>,
      <<BN(<<3, 0, 0>>), BN(<<1>> \o Zeros(8)), BN(<<2>>)>> }

CodecLens ==
    { <<20, 32, 96, 0>> } \cup
    { <<a, b, c, d>> : a \in {0, MAX_SENDER_SIZE, MAX_SENDER_SIZE + 1},
                      b \in {0, MAX_RECIPIENT_SIZE, MAX_RECIPIENT_SIZE + 1},
                      c \in {0, MAX_ON_CHAIN_DATA, MAX_ON_CHAIN_DATA + 1},
                      d \in {0, MAX_OFF_CHAIN_DATA, MAX_OFF_CHAIN_DATA + 1} }

CodecMessages ==
    { [txId |-> t[1], sourceChainId |-> t[2], destChainId |-> t[3],
       sender |-> Fill(l[1], f), recipient |-> Fill(l[2], f + 1),
       onChainData |-> Fill(l[3], f + 2), offChainData |-> Fill(l[4], f + 3)] :
      t \in CodecInts, l \in CodecLens, f \in 1..NumFills }

IntsInRange(m) ==
    /\ ~m.txId.negative /\ BNFits(m.txId, 16)
    /\ ~m.sourceChainId.negative /\ BNFits(m.sourceChainId, 8)
    /\ ~m.destChainId.negative /\ BNFits(m.destChainId, 8)

\* offsets of the field boundaries of the encoding of m
FieldOffsets(m) ==
    LET a == 36 + Len(m.sender)
        b == a + 4 + Len(m.recipient)
        c == b + 4 + Len(m.onChainData)
    IN {0, 16, 24, 32, 36, a, a + 4, b, b + 4, c, c + 4}

\* offsets of the four length prefixes of the encoding of m
PrefixOffsets(m) ==
    LET a == 36 + Len(m.sender)
        b == a + 4 + Len(m.recipient)
        c == b + 4 + Len(m.onChainData)
    IN {32, a, b, c}

CutPoints(m, n) ==
    { k \in 0..(n - 1) : \E o \in FieldOffsets(m) : k \in {o - 1, o, o + 1} }

CodecInit ==
    /\ cmsg \in CodecMessages
    /\ cenc = NoValue
    /\ cbuf = NoValue
    /\ cdec = NoValue
    /\ cpda = NoValue

Encode ==
    /\ cenc = NoValue /\ cpda = NoValue
    /\ cenc' = EncodeMsg(cmsg)
    /\ UNCHANGED <<cmsg, cbuf, cdec, cpda>>
    /\ UNCHANGED sdkVars

DecodeOf(bytes, how) ==
    /\ cbuf' = [bytes |-> bytes, how |-> how]
    /\ cdec' = decodeViaMessage(bytes)
    /\ UNCHANGED <<cmsg, cenc, cpda>>

DecodeEncoded ==
    /\ cenc # NoValue /\ cenc.ok /\ cbuf = NoValue
    /\ DecodeOf(cenc.value, "exact")
    /\ UNCHANGED sdkVars

DecodeTruncated ==
    /\ cenc # NoValue /\ cenc.ok /\ cbuf = NoValue
    /\ \E k \in CutPoints(cmsg, Len(cenc.value)) :
          DecodeOf(SubSeq(cenc.value, 1, k), "truncated")
    /\ UNCHANGED sdkVars

DecodeExtended ==
    /\ cenc # NoValue /\ cenc.ok /\ cbuf = NoValue
    /\ \E n \in 1..MaxExtra, b \in {0, 1, 255} :
          DecodeOf(cenc.value \o [i \in 1..n |-> b], "extended")
    /\ UNCHANGED sdkVars

\* one length prefix declares one byte more or one byte less than is there
DecodeReprefixed ==
    /\ cenc # NoValue /\ cenc.ok /\ cbuf = NoValue
    /\ \E o \in PrefixOffsets(cmsg), d \in {-1, 1} :
          LET old == ReadUInt32LE(cenc.value, o)
              new == WriteUInt32LE(old + d)
          IN /\ old + d >= 0
             /\ DecodeOf([i \in 1..Len(cenc.value) |->
                            IF i \in (o + 1)..(o + 4) THEN new[i - o]
                            ELSE cenc.value[i]], "reprefixed")
    /\ UNCHANGED sdkVars

\* the bytes a peer that does not apply the size checks puts on the wire
\* for m: the same layout, whatever the field lengths
WireBytes(m) ==
    ToArrayLikeLE(m.txId, 16) \o ToArrayLikeLE(m.sourceChainId, 8)
        \o ToArrayLikeLE(m.destChainId, 8)
        \o encodeLengthPrefixed(m.sender) \o encodeLengthPrefixed(m.recipient)
        \o encodeLengthPrefixed(m.onChainData) \o encodeLengthPrefixed(m.offChainData)

\* a well-formed buffer that encodeViaMessage refused to produce
DecodeForeign ==
    /\ cenc # NoValue /\ ~cenc.ok /\ IntsInRange(cmsg) /\ cbuf = NoValue
    /\ DecodeOf(WireBytes(cmsg), "foreign")
    /\ UNCHANGED sdkVars

(***************************************************************************)
(* signatures.ts: message hasher and signature assembler.                  *)
(***************************************************************************)
\* sha3.keccak_256: a digest is determined by, and determines, the bytes
Keccak256(bytes) == [keccak256 |-> bytes]

\* variant: the digest is taken with the two chain IDs exchanged
createMessageHashSwapped(m) ==
    LET encoded == EncodeMsg([m EXCEPT !.sourceChainId = m.destChainId,
                                       !.destChainId = m.sourceChainId])
    IN IF ~encoded.ok THEN encoded ELSE Ok(Keccak256(encoded.value))

createMessageHash(m) ==
    LET encoded == EncodeMsg(m)
    IN IF ~encoded.ok THEN encoded ELSE Ok(Keccak256(encoded.value))

createEd25519Instruction(signature, publicKey, message) ==
    [programId |-> Address("Ed25519Program"), publicKey |-> publicKey,
     message |-> message, signature |-> signature]

(***************************************************************************)
(* pdas.ts: deterministic address derivation.                              *)
(***************************************************************************)
CHAIN_ID_BYTES == 8
TX_ID_BYTES == 16

GatewayProgram == Address("MessageGatewayV4")
GasHandlerProgramId == Address("GasHandlerV4")
Wallet == Address("wallet")
SYSVAR_INSTRUCTIONS_PUBKEY == Address("SysvarInstructions")
SystemProgramId == Address("SystemProgram")

\* validateChainId / validateTxId: TRUE when the value passes
validateChainId(chainId) == ~chainId.negative
validateTxId(txId) == ~txId.negative

\* PublicKey.findProgramAddressSync(seeds, programId)[0]
FindProgramAddress(seeds, programId) == [seeds |-> seeds, programId |-> programId]

InvalidRegistryTypeText(registryType) == "Invalid registry type: " \o registryType

\* variant: the discriminants are counted from 1
registryTypeToDiscriminantFromOne(registryType) ==
    CASE registryType = "via" -> Ok(1)
      [] registryType = "chain" -> Ok(2)
      [] registryType = "project" -> Ok(3)
      [] OTHER -> Throw(InvalidRegistryTypeText(registryType))

registryTypeToDiscriminant(registryType) ==
    CASE registryType = "via" -> Ok(0)
      [] registryType = "chain" -> Ok(1)
      [] registryType = "project" -> Ok(2)
      [] OTHER -> Throw(InvalidRegistryTypeText(registryType))

getGatewayPda(chainId) ==
    FindProgramAddress(<<"gateway", ToArrayLikeLE(chainId, CHAIN_ID_BYTES)>>, GatewayProgram)

getSignerRegistryPda(registryType, chainId) ==
    FindProgramAddress(<<"signer_registry", <<registryTypeToDiscriminant(registryType).value>>,
                         ToArrayLikeLE(chainId, CHAIN_ID_BYTES)>>, GatewayProgram)

getCounterPda(sourceChainId) ==
    FindProgramAddress(<<"counter", ToArrayLikeLE(sourceChainId, CHAIN_ID_BYTES)>>, GatewayProgram)

getTxCounterPda(chainId) ==
    FindProgramAddress(<<"tx_counter", ToArrayLikeLE(chainId, CHAIN_ID_BYTES)>>, GatewayProgram)

getTxIdPda(sourceChainId, txId) ==
    FindProgramAddress(<<"tx", ToArrayLikeLE(sourceChainId, CHAIN_ID_BYTES),
                         ToArrayLikeLE(txId, TX_ID_BYTES)>>, GatewayProgram)

getGasConfigPda(gatewayKey, gasHandlerProgramId) ==
    FindProgramAddress(<<"gas_config", gatewayKey>>, gasHandlerProgramId)

getClientGasConfigPda(gatewayKey, clientProgramId, gasHandlerProgramId) ==
    FindProgramAddress(<<"client_gas_config", gatewayKey, clientProgramId>>, gasHandlerProgramId)

getGasPoolPda(gatewayKey, gasHandlerProgramId) ==
    FindProgramAddress(<<"gas_pool", gatewayKey>>, gasHandlerProgramId)

\* BN.toString() of the small values the model draws
BNText(bn) ==
    (IF bn.negative THEN "-" ELSE "")
        \o Dec(IF Len(bn.mag) = 0 THEN 0
               ELSE IF Len(bn.mag) = 1 THEN bn.mag[1]
               ELSE 256 * bn.mag[Len(bn.mag) - 1] + bn.mag[Len(bn.mag)])

InvalidChainIdText(chainId) == "Invalid chain ID: " \o BNText(chainId)
InvalidTxIdText(txId) == "Invalid TX ID: " \o BNText(txId)

(***************************************************************************)
(* sdk.ts: building the instruction lists of the message operations.       *)
(***************************************************************************)
MAX_SIGNATURES_V0 == 3

TooManySignaturesText(n) ==
    "Too many signatures for V0 transaction: " \o Dec(n) \o " provided, maximum "
        \o Dec(MAX_SIGNATURES_V0) \o " supported. V0 transactions have a 1232 byte "
        \o "limit, and each Ed25519 instruction uses ~200 bytes."

NoSignaturesText == "At least one signature is required"

\* for (const sig of signatures) tx.add(createEd25519Instruction(...))
RECURSIVE AddUnits(_, _, _)
AddUnits(list, signatures, messageHash) ==
    IF Len(signatures) = 0 THEN list
    ELSE AddUnits(Append(list, createEd25519Instruction(Head(signatures).signature,
                                                        Head(signatures).signer,
                                                        messageHash)),
                  Tail(signatures), messageHash)

\* variant: the main operation is placed in front of the units
AddMainFirst(list, mainInstruction) == <<mainInstruction>> \o list

\* tx.add(instruction) / instructions.push(mainInstruction)
AddMain(list, mainInstruction) == Append(list, mainInstruction)

MessageArgs(m) ==
    <<m.txId, m.sourceChainId, m.destChainId, m.sender, m.recipient,
      m.onChainData, m.offChainData>>

\* program.methods.createTxPda(...).accountsPartial({...}).instruction()
CreateTxPdaInstruction(m) ==
    IF ~validateChainId(m.sourceChainId) THEN Throw(InvalidChainIdText(m.sourceChainId))
    ELSE IF ~validateTxId(m.txId) THEN Throw(InvalidTxIdText(m.txId))
    ELSE Ok([programId |-> GatewayProgram, method |-> "createTxPda",
             args |-> MessageArgs(m),
             accounts |-> [txIdPda |-> getTxIdPda(m.sourceChainId, m.txId),
                           counterPda |-> getCounterPda(m.sourceChainId),
                           relayer |-> Wallet,
                           instructions |-> SYSVAR_INSTRUCTIONS_PUBKEY],
             remainingAccounts |-> <<>>])

\* the account map and main instruction of processMessageWithSignatures
ProcessMessageInstruction(m, includeProjectRegistry) ==
    IF ~validateChainId(m.destChainId) THEN Throw(InvalidChainIdText(m.destChainId))
    ELSE IF ~validateChainId(m.sourceChainId) THEN Throw(InvalidChainIdText(m.sourceChainId))
    ELSE IF ~validateTxId(m.txId) THEN Throw(InvalidTxIdText(m.txId))
    ELSE Ok([programId |-> GatewayProgram, method |-> "processMessage",
             args |-> MessageArgs(m),
             accounts |->
               [gateway |-> getGatewayPda(m.destChainId),
                txIdPda |-> getTxIdPda(m.sourceChainId, m.txId),
                viaRegistry |-> getSignerRegistryPda("via", m.destChainId),
                chainRegistry |-> getSignerRegistryPda("chain", m.sourceChainId),
                relayer |-> Wallet,
                instructions |-> SYSVAR_INSTRUCTIONS_PUBKEY,
                systemProgram |-> SystemProgramId,
                gasHandlerProgram |-> GasHandlerProgramId,
                gasConfig |-> getGasConfigPda(getGatewayPda(m.destChainId), GasHandlerProgramId),
                clientGasConfig |-> NoValue,
                gasPool |-> getGasPoolPda(getGatewayPda(m.destChainId), GasHandlerProgramId),
                projectRegistry |-> IF includeProjectRegistry
                                    THEN getSignerRegistryPda("project", m.destChainId)
                                    ELSE NoValue],
             remainingAccounts |-> <<>>])

\* createTxPdaWithSignatures up to the sendAndConfirm call
BuildCreateTxPda(m, signatures) ==
    LET messageHash == createMessageHash(m) IN
    IF ~messageHash.ok THEN messageHash ELSE
    LET main == CreateTxPdaInstruction(m) IN
    IF ~main.ok THEN main
    ELSE Ok(AddMain(AddUnits(<<>>, signatures, messageHash.value), main.value))

\* processMessageWithSignatures up to the sendAndConfirm call
BuildProcessMessage(m, signatures, includeProjectRegistry) ==
    LET messageHash == createMessageHash(m) IN
    IF ~messageHash.ok THEN messageHash ELSE
    LET main == ProcessMessageInstruction(m, includeProjectRegistry) IN
    IF ~main.ok THEN main
    ELSE Ok(AddMain(AddUnits(<<>>, signatures, messageHash.value), main.value))

\* variant: the cap itself is rejected
CheckSignatureCountV0AtCap(signatures) ==
    IF Len(signatures) >= 3 THEN Throw(TooManySignaturesText(Len(signatures)))
    ELSE IF Len(signatures) = 0 THEN Throw(NoSignaturesText)
    ELSE NoValue

\* the signature-count validation of the V0 operations: the error thrown, or
\* NoValue when the count passes
CheckSignatureCountV0(signatures) ==
    IF Len(signatures) > MAX_SIGNATURES_V0 THEN Throw(TooManySignaturesText(Len(signatures)))
    ELSE IF Len(signatures) = 0 THEN Throw(NoSignaturesText)
    ELSE NoValue

\* variant: the Compact create operation puts its main operation first
BuildCreateTxPdaV0MainFirst(m, signatures) ==
    LET count == CheckSignatureCountV0(signatures) IN
    IF count # NoValue THEN count ELSE
    LET messageHash == createMessageHash(m) IN
    IF ~messageHash.ok THEN messageHash ELSE
    LET main == CreateTxPdaInstruction(m) IN
    IF ~main.ok THEN main
    ELSE Ok(AddMainFirst(AddUnits(<<>>, signatures, messageHash.value), main.value))

\* createTxPdaWithSignaturesV0 up to the executeV0Transaction call
BuildCreateTxPdaV0(m, signatures) ==
    LET count == CheckSignatureCountV0(signatures) IN
    IF count # NoValue THEN count ELSE
    LET messageHash == createMessageHash(m) IN
    IF ~messageHash.ok THEN messageHash ELSE
    LET main == CreateTxPdaInstruction(m) IN
    IF ~main.ok THEN main
    ELSE Ok(AddMain(AddUnits(<<>>, signatures, messageHash.value), main.value))

\* variant: the signer count is not validated before the account read
BuildUnitsV0CountUnchecked(m, signatures) ==
    LET messageHash == createMessageHash(m) IN
    IF ~messageHash.ok THEN messageHash
    ELSE Ok(AddUnits(<<>>, signatures, messageHash.value))

\* processMessageWithSignaturesV0 up to the getAccountInfo call: the units
BuildUnitsV0(m, signatures) ==
    LET count == CheckSignatureCountV0(signatures) IN
    IF count # NoValue THEN count ELSE
    LET messageHash == createMessageHash(m) IN
    IF ~messageHash.ok THEN messageHash
    ELSE Ok(AddUnits(<<>>, signatures, messageHash.value))

\* variant: any existing account counts as a deployed gas handler
GasHandlerAccountsIfExists(m, clientProgramId, info) ==
    IF info \in {"executable", "notExecutable"} /\ validateChainId(m.destChainId)
    THEN [gasHandlerProgram |-> GasHandlerProgramId,
          gasConfig |-> getGasConfigPda(getGatewayPda(m.destChainId), GasHandlerProgramId),
          clientGasConfig |-> IF clientProgramId # NoValue
                              THEN getClientGasConfigPda(getGatewayPda(m.destChainId),
                                                         clientProgramId, GasHandlerProgramId)
                              ELSE NoValue,
          gasPool |-> getGasPoolPda(getGatewayPda(m.destChainId), GasHandlerProgramId)]
    ELSE [gasHandlerProgram |-> NoValue, gasConfig |-> NoValue,
          clientGasConfig |-> NoValue, gasPool |-> NoValue]

\* gasHandlerAccounts, from the outcome of getAccountInfo: "executable",
\* "notExecutable", "null" or "throw"
GasHandlerAccounts(m, clientProgramId, info) ==
    IF info = "executable" /\ validateChainId(m.destChainId)
    THEN [gasHandlerProgram |-> GasHandlerProgramId,
          gasConfig |-> getGasConfigPda(getGatewayPda(m.destChainId), GasHandlerProgramId),
          clientGasConfig |-> IF clientProgramId # NoValue
                              THEN getClientGasConfigPda(getGatewayPda(m.destChainId),
                                                         clientProgramId, GasHandlerProgramId)
                              ELSE NoValue,
          gasPool |-> getGasPoolPda(getGatewayPda(m.destChainId), GasHandlerProgramId)]
    ELSE [gasHandlerProgram |-> NoValue, gasConfig |-> NoValue,
          clientGasConfig |-> NoValue, gasPool |-> NoValue]

\* the account map and main instruction of processMessageWithSignaturesV0
ProcessMessageInstructionV0(m, includeProjectRegistry, remainingAccounts, info) ==
    LET clientProgramId == IF Len(remainingAccounts) >= 1 THEN remainingAccounts[1] ELSE NoValue
        clientConfigPda == IF clientProgramId # NoValue
                           THEN FindProgramAddress(<<"client_config">>, clientProgramId)
                           ELSE NoValue
        decodedMessagePda == IF clientProgramId # NoValue
                             THEN FindProgramAddress(<<"decoded", ToArrayLikeLE(m.txId, 16)>>,
                                                     clientProgramId)
                             ELSE NoValue
        gas == GasHandlerAccounts(m, clientProgramId, info)
    IN
    IF ~validateChainId(m.destChainId) THEN Throw(InvalidChainIdText(m.destChainId))
    ELSE IF ~validateChainId(m.sourceChainId) THEN Throw(InvalidChainIdText(m.sourceChainId))
    ELSE IF ~validateTxId(m.txId) THEN Throw(InvalidTxIdText(m.txId))
    ELSE Ok([programId |-> GatewayProgram, method |-> "processMessage",
             args |-> MessageArgs(m),
             accounts |->
               [gateway |-> getGatewayPda(m.destChainId),
                txIdPda |-> getTxIdPda(m.sourceChainId, m.txId),
                viaRegistry |-> getSignerRegistryPda("via", m.destChainId),
                chainRegistry |-> getSignerRegistryPda("chain", m.sourceChainId),
                projectRegistry |-> IF includeProjectRegistry
                                    THEN getSignerRegistryPda("project", m.destChainId)
                                    ELSE NoValue,
                relayer |-> Wallet,
                decodedMessagePda |-> decodedMessagePda,
                clientConfig |-> clientConfigPda,
                instructions |-> SYSVAR_INSTRUCTIONS_PUBKEY,
                systemProgram |-> SystemProgramId,
                gasHandlerProgram |-> gas.gasHandlerProgram,
                gasConfig |-> gas.gasConfig,
                clientGasConfig |-> gas.clientGasConfig,
                gasPool |-> gas.gasPool],
             remainingAccounts |-> remainingAccounts])

(***************************************************************************)
(* sdk.ts: executeWithRetry.                                               *)
(***************************************************************************)
DefaultMaxRetries == 3

nonRetryableErrors ==
    <<"already in use", "invalid", "insufficient", "TxIdAlreadyExists",
      "TxIdNotFound", "SystemDisabled", "SignerNotRegistered">>

Err(message) == [message |-> message]

\* variant: the vocabulary is matched case-sensitively
isNonRetryableCaseSensitive(error) ==
    \E i \in 1..Len(nonRetryableErrors) : Includes(error.message, nonRetryableErrors[i])

\* nonRetryableErrors.some(err => error.message?.toLowerCase().includes(err.toLowerCase()))
isNonRetryable(error) ==
    LET lowered == ToLowerCase(error.message)
    IN \E i \in 1..Len(nonRetryableErrors) :
          Includes(lowered, ToLowerCase(nonRetryableErrors[i]))

\* variant: one attempt more than the cap
MayRetryAtCap(att, maxRetries) == att <= maxRetries

\* attempt < maxRetries
MayRetry(att, maxRetries) == att < maxRetries

\* variant: the first delay is already doubled
BackoffMsDoubled(att) == 1000 * 2 ^ att

\* 1000 * Math.pow(2, attempt - 1)
BackoffMs(att) == 1000 * 2 ^ (att - 1)

\* `${error.message || error}`
ErrorText(error) == IF error.message # "" THEN error.message ELSE "Error"

\* lastError = error
RecordError(old, error) == error

FailedText(name, error) == name \o " failed: " \o ErrorText(error)

ExhaustedText(name, maxRetries, error) ==
    name \o " failed after " \o Dec(maxRetries) \o " attempts: " \o ErrorText(error)

\* one entry of the history of a call
Event(op, outcome, msg, num) == [op |-> op, outcome |-> outcome, msg |-> msg, num |-> num]

NoCur == [blockhash |-> 0, lastValidBlockHeight |-> 0, signature |-> 0]

Envelope(signature, instrs, version, blockhash, table) ==
    [signature |-> signature, instructions |-> instrs, version |-> version,
     blockhash |-> blockhash, table |-> table]

\* variant: a retryable failure is followed by the next attempt at once
CatchWithoutBackoff(c, error, tr, att) ==
    /\ lastError' = RecordError(lastError, error)
    /\ IF isNonRetryable(error)
       THEN /\ pc' = "done"
            /\ result' = Throw(FailedText(c.name, error))
            /\ trace' = Append(tr, Event("caught", "fatal", error.message, att))
       ELSE IF MayRetry(att, c.maxRetries)
       THEN /\ pc' = "await_sleep"
            /\ result' = NoValue
            /\ trace' = Append(tr, Event("caught", "retry", error.message, att))
       ELSE /\ pc' = "done"
            /\ result' = Throw(ExhaustedText(c.name, c.maxRetries, lastError'))
            /\ trace' = Append(tr, Event("caught", "exhausted", error.message, att))

\* the catch block of executeWithRetry for the error thrown by attempt att,
\* and the throw after the loop; tr is the history up to the throw
Catch(c, error, tr, att) ==
    /\ lastError' = RecordError(lastError, error)
    /\ IF isNonRetryable(error)
       THEN /\ pc' = "done"
            /\ result' = Throw(FailedText(c.name, error))
            /\ trace' = Append(tr, Event("caught", "fatal", error.message, att))
       ELSE IF MayRetry(att, c.maxRetries)
       THEN /\ pc' = "await_sleep"
            /\ result' = NoValue
            /\ trace' = tr \o <<Event("caught", "retry", error.message, att),
                                Event("sleep", "-", "", BackoffMs(att))>>
       ELSE /\ pc' = "done"
            /\ result' = Throw(ExhaustedText(c.name, c.maxRetries, lastError'))
            /\ trace' = Append(tr, Event("caught", "exhausted", error.message, att))

(***************************************************************************)
(* sdk.ts: executeTransaction, with initializeGateway as its caller.       *)
(***************************************************************************)
InitializeGatewayInstruction(chainId) ==
    IF ~validateChainId(chainId) THEN Throw(InvalidChainIdText(chainId))
    ELSE Ok([programId |-> GatewayProgram, method |-> "initializeGateway",
             args |-> <<chainId>>,
             accounts |-> [gateway |-> getGatewayPda(chainId),
                           counter |-> getTxCounterPda(chainId),
                           authority |-> Wallet],
             remainingAccounts |-> <<>>])

\* attempt att of the closure of executeTransaction begins: txBuilder() builds
\* the instruction and .rpc() hands the envelope to the network
InvokeStd(c, tr, att) ==
    LET tr1 == Append(tr, Event("invoke", "-", "", att))
        built == InitializeGatewayInstruction(c.chainId)
    IN IF ~built.ok
       THEN /\ Catch(c, Err(built.error), tr1, att)
            /\ UNCHANGED <<sent, cur>>
       ELSE /\ sent' = Append(sent, Envelope(Len(sent) + 1, <<built.value>>, "legacy", 0, NoValue))
            /\ pc' = "await_txBuilder"
            /\ trace' = tr1
            /\ UNCHANGED <<lastError, result, cur>>

\* attempt att of the closure of executeV0Transaction begins
InvokeV0(c, tr, att) ==
    /\ pc' = "await_getLatestBlockhash"
    /\ trace' = Append(tr, Event("invoke", "-", "", att))
    /\ UNCHANGED <<lastError, result, sent, cur>>

LookupTableNotLoadedText == "Lookup table not loaded. Call loadLookupTable() first."

\* executeV0Transaction(name, instructions), entered with history tr
ExecuteV0(c, tr) ==
    IF lookupTableAccount = NoValue
    THEN /\ pc' = "done"
         /\ result' = Throw(LookupTableNotLoadedText)
         /\ trace' = tr
         /\ UNCHANGED <<lastError, sent, cur>>
    ELSE InvokeV0(c, tr, 1)

(***************************************************************************)
(* What the network can answer.                                            *)
(***************************************************************************)
NetworkErrorText == "failed to get recent blockhash: TypeError: fetch failed"
ConfirmTimeoutText ==
    "Transaction was not confirmed in 30.00 seconds. It is unknown if it succeeded or failed."

\* rejections by the verifying program or the RPC node
RejectedTexts ==
    { "Allocate: account Address already in use",
      "failed to send transaction: Invalid param: WrongSize",
      "Transfer: Insufficient lamports 0, need 1000",
      "AnchorError occurred. Error Code: TxIdAlreadyExists. Error Number: 6000.",
      "AnchorError occurred. Error Code: TxIdNotFound. Error Number: 6001.",
      "AnchorError occurred. Error Code: SystemDisabled. Error Number: 6002.",
      "AnchorError occurred. Error Code: SignerNotRegistered. Error Number: 6003." }

\* JSON.stringify(confirmation.value.err) of a ledger-reported execution error
ExecErrors ==
    { "{\"InstructionError\":[0,{\"Custom\":6001}]}",
      "{\"InstructionError\":[0,\"InvalidAccountData\"]}" }

\* what .rpc() of a Standard operation can throw
SendErrors == { Err(t) : t \in RejectedTexts \cup {NetworkErrorText} }

\* what sendTransaction and sendAndConfirm of a message operation can throw
MessageSendErrors ==
    { Err("AnchorError occurred. Error Code: TxIdNotFound. Error Number: 6001."),
      Err(NetworkErrorText) }

(***************************************************************************)
(* Inputs of the public operations.                                        *)
(***************************************************************************)
\* longest signer list a caller supplies
MaxSigners == 4

Signers == {"A", "B"}

MessageSignature(s) == [signature |-> <<"signature of", s>>, signer |-> s]

\* every list of at most two distinct signers, and the lists A, B, A, B, ...
\* above that
SignerLists ==
    { <<>> }
    \cup { <<MessageSignature(a)>> : a \in Signers }
    \cup { <<MessageSignature(p[1]), MessageSignature(p[2])>> :
              p \in { q \in Signers \X Signers : q[1] # q[2] } }
    \cup { [i \in 1..n |-> MessageSignature(IF i % 2 = 1 THEN "A" ELSE "B")] : n \in 3..MaxSigners }

MsgOk ==
    [txId |-> BN(<<1>>), sourceChainId |-> BN(<<168, 105>>), destChainId |-> BN(<<2>>),
     sender |-> <<1, 2>>, recipient |-> <<3>>, onChainData |-> <<4, 5>>,
     offChainData |-> <<>>]

MsgSenderTooLong == [MsgOk EXCEPT !.sender = Fill(MAX_SENDER_SIZE + 1, 1)]

SdkMessages == {MsgOk, MsgSenderTooLong}

ChainIds == { BN(<<2>>), [negative |-> TRUE, mag |-> <<1>>] }

ClientProgram == Address("ClientProgram")
RemainingAccountLists == { <<>>, <<ClientProgram>> }

LookupTableAddress == Address("ALT")

\* connection.getAddressLookupTable(address).value
LookupTableValues ==
    { NoValue,
      [key |-> LookupTableAddress, addresses |-> <<GatewayProgram, GasHandlerProgramId>>],
      [key |-> LookupTableAddress, addresses |-> <<GatewayProgram>>] }

(***************************************************************************)
(* The state machine of the SDK instance.                                  *)
(***************************************************************************)
\* no loadLookupTable call is running beside the call in progress
LoaderIdle == [pc |-> "idle", result |-> NoValue, log |-> NoValue]

SdkInit ==
    /\ lookupTableAccount = NoValue
    /\ pc = "idle"
    /\ call = NoValue
    /\ instructions = <<>>
    /\ attempt = 0
    /\ lastError = NoValue
    /\ cur = NoCur
    /\ sent = <<>>
    /\ trace = <<>>
    /\ result = NoValue
    /\ loader = LoaderIdle

CodecIdle ==
    /\ cmsg = MsgOk
    /\ cenc = NoValue
    /\ cbuf = NoValue
    /\ cdec = NoValue
    /\ cpda = NoValue

\* the caller awaits each public call before making the next one
CanCall == pc = "idle"

\* a call that throws before its first await
FailLocally(error) ==
    /\ pc' = "done"
    /\ result' = Throw(error)
    /\ instructions' = <<>>
    /\ UNCHANGED <<sent, trace, lastError, cur>>

initializeGateway ==
    /\ CanCall
    /\ \E chainId \in ChainIds :
          /\ call' = [op |-> "initializeGateway", name |-> "initializeGateway",
                      variant |-> "std", maxRetries |-> DefaultMaxRetries,
                      chainId |-> chainId]
          /\ InvokeStd(call', <<>>, 1)
    /\ attempt' = 1
    /\ UNCHANGED <<lookupTableAccount, instructions>>
    /\ UNCHANGED <<codecVars, loader>>

TxBuilderReturns ==
    /\ pc = "await_txBuilder"
    /\ \/ /\ cur' = [cur EXCEPT !.signature = sent[Len(sent)].signature]
          /\ trace' = Append(trace, Event("txBuilder", "ok", "", cur'.signature))
          /\ pc' = "await_confirmTransaction"
          /\ UNCHANGED <<lastError, result>>
       \/ \E e \in SendErrors :
             /\ Catch(call, e, Append(trace, Event("txBuilder", "throw", e.message, 0)), attempt)
             /\ UNCHANGED cur
    /\ UNCHANGED <<lookupTableAccount, call, instructions, attempt, sent>>
    /\ UNCHANGED <<codecVars, loader>>

\* variant: a successful attempt below the cap is followed by a further one
ConfirmReturnsAndContinues ==
    /\ pc = "await_confirmTransaction"
    /\ \/ /\ IF MayRetry(attempt, call.maxRetries)
             THEN /\ result' = NoValue
                  /\ pc' = "await_sleep"
                  /\ trace' = trace \o
                       <<Event("confirmTransaction", "ok", "", cur.signature),
                         Event("sleep", "-", "", BackoffMs(attempt))>>
             ELSE /\ result' = Ok(cur.signature)
                  /\ pc' = "done"
                  /\ trace' = Append(trace, Event("confirmTransaction", "ok", "",
                                                  cur.signature))
          /\ UNCHANGED lastError
       \/ \E j \in ExecErrors :
             Catch(call, Err("Transaction failed: " \o j),
                   Append(trace, Event("confirmTransaction", "err", j, cur.signature)),
                   attempt)
       \/ Catch(call, Err(ConfirmTimeoutText),
                Append(trace, Event("confirmTransaction", "throw", ConfirmTimeoutText,
                                    cur.signature)),
                attempt)
    /\ UNCHANGED <<lookupTableAccount, call, instructions, attempt, cur, sent>>
    /\ UNCHANGED <<codecVars, loader>>

\* executeTransaction after confirmTransaction(signature, 'confirmed')
ConfirmReturns ==
    /\ pc = "await_confirmTransaction"
    /\ \/ /\ result' = Ok(cur.signature)
          /\ pc' = "done"
          /\ trace' = Append(trace, Event("confirmTransaction", "ok", "", cur.signature))
          /\ UNCHANGED lastError
       \/ \E j \in ExecErrors :
             Catch(call, Err("Transaction failed: " \o j),
                   Append(trace, Event("confirmTransaction", "err", j, cur.signature)),
                   attempt)
       \/ Catch(call, Err(ConfirmTimeoutText),
                Append(trace, Event("confirmTransaction", "throw", ConfirmTimeoutText,
                                    cur.signature)),
                attempt)
    /\ UNCHANGED <<lookupTableAccount, call, instructions, attempt, cur, sent>>
    /\ UNCHANGED <<codecVars, loader>>

\* the backoff timer fires: the loop continues with the next attempt
SleepEnds ==
    /\ pc = "await_sleep"
    /\ attempt' = attempt + 1
    /\ IF call.variant = "std"
       THEN InvokeStd(call, trace, attempt + 1)
       ELSE InvokeV0(call, trace, attempt + 1)
    /\ UNCHANGED <<lookupTableAccount, call, instructions>>
    /\ UNCHANGED <<codecVars, loader>>

(***************************************************************************)
(* sdk.ts: the Standard message operations (provider.sendAndConfirm).      *)
(***************************************************************************)
MessageCall(op, name, variant, m, signatures, includeProjectRegistry, remainingAccounts) ==
    [op |-> op, name |-> name, variant |-> variant, maxRetries |-> DefaultMaxRetries,
     message |-> m, signatures |-> signatures,
     includeProjectRegistry |-> includeProjectRegistry,
     remainingAccounts |-> remainingAccounts]

\* the built transaction is handed to provider.sendAndConfirm
SendAndConfirm(instrs) ==
    /\ instructions' = instrs
    /\ sent' = Append(sent, Envelope(Len(sent) + 1, instrs, "legacy", 0, NoValue))
    /\ pc' = "await_sendAndConfirm"
    /\ UNCHANGED <<trace, lastError, cur, result>>

createTxPdaWithSignatures ==
    /\ CanCall
    /\ \E m \in SdkMessages, signatures \in SignerLists :
          LET built == BuildCreateTxPda(m, signatures) IN
          /\ call' = MessageCall("createTxPdaWithSignatures", "createTxPda", "std",
                                 m, signatures, FALSE, <<>>)
          /\ IF built.ok THEN SendAndConfirm(built.value) ELSE FailLocally(built.error)
    /\ attempt' = 0
    /\ UNCHANGED lookupTableAccount
    /\ UNCHANGED <<codecVars, loader>>

processMessageWithSignatures ==
    /\ CanCall
    /\ \E m \in SdkMessages, signatures \in SignerLists, includeProjectRegistry \in BOOLEAN :
          LET built == BuildProcessMessage(m, signatures, includeProjectRegistry) IN
          /\ call' = MessageCall("processMessageWithSignatures", "processMessage", "std",
                                 m, signatures, includeProjectRegistry, <<>>)
          /\ IF built.ok THEN SendAndConfirm(built.value) ELSE FailLocally(built.error)
    /\ attempt' = 0
    /\ UNCHANGED lookupTableAccount
    /\ UNCHANGED <<codecVars, loader>>

\* provider.sendAndConfirm(tx) settles: its value or its error is the
\* outcome of the call
SendAndConfirmReturns ==
    /\ pc = "await_sendAndConfirm"
    /\ \/ /\ result' = Ok(sent[Len(sent)].signature)
          /\ trace' = Append(trace, Event("sendAndConfirm", "ok", "", sent[Len(sent)].signature))
       \/ \E e \in MessageSendErrors \cup {Err(ConfirmTimeoutText)} :
             /\ result' = Throw(e.message)
             /\ trace' = Append(trace, Event("sendAndConfirm", "throw", e.message, 0))
    /\ pc' = "done"
    /\ UNCHANGED <<lookupTableAccount, call, instructions, attempt, lastError,
                   cur, sent>>
    /\ UNCHANGED <<codecVars, loader>>

(***************************************************************************)
(* sdk.ts: the Compact (V0) message operations and executeV0Transaction.   *)
(***************************************************************************)
createTxPdaWithSignaturesV0 ==
    /\ CanCall
    /\ \E m \in SdkMessages, signatures \in SignerLists :
          LET built == BuildCreateTxPdaV0(m, signatures)
              c == MessageCall("createTxPdaWithSignaturesV0", "createTxPda", "v0",
                               m, signatures, FALSE, <<>>)
          IN /\ call' = c
             /\ IF built.ok
                THEN /\ instructions' = built.value
                     /\ ExecuteV0(c, <<>>)
                ELSE FailLocally(built.error)
    /\ attempt' = 1
    /\ UNCHANGED lookupTableAccount
    /\ UNCHANGED <<codecVars, loader>>

processMessageWithSignaturesV0 ==
    /\ CanCall
    /\ \E m \in SdkMessages, signatures \in SignerLists,
          includeProjectRegistry \in BOOLEAN, remainingAccounts \in RemainingAccountLists :
          LET units == BuildUnitsV0(m, signatures) IN
          /\ call' = MessageCall("processMessageWithSignaturesV0", "processMessage", "v0",
                                 m, signatures, includeProjectRegistry, remainingAccounts)
          /\ IF units.ok
             THEN /\ instructions' = units.value
                  /\ pc' = "await_getAccountInfo"
                  /\ UNCHANGED <<sent, trace, lastError, cur, result>>
             ELSE FailLocally(units.error)
    /\ attempt' = 1
    /\ UNCHANGED lookupTableAccount
    /\ UNCHANGED <<codecVars, loader>>

\* connection.getAccountInfo(gasHandlerProgramId) settles; the main
\* instruction is built and executeV0Transaction is entered
GetAccountInfoReturns ==
    /\ pc = "await_getAccountInfo"
    /\ \E info \in {"executable", "notExecutable", "null", "throw"} :
          LET main == ProcessMessageInstructionV0(call.message, call.includeProjectRegistry,
                                                  call.remainingAccounts, info)
              tr == Append(trace, Event("getAccountInfo", info, "", 0))
          IN IF main.ok
             THEN /\ instructions' = AddMain(instructions, main.value)
                  /\ ExecuteV0(call, tr)
             ELSE /\ pc' = "done"
                  /\ result' = Throw(main.error)
                  /\ trace' = tr
                  /\ UNCHANGED <<instructions, lastError, sent, cur>>
    /\ UNCHANGED <<lookupTableAccount, call, attempt>>
    /\ UNCHANGED <<codecVars, loader>>

\* variant: the blockhash of the first attempt is kept for the later ones
GetLatestBlockhashKept ==
    /\ pc = "await_getLatestBlockhash"
    /\ \/ LET blockhash == Len(trace) IN
          /\ cur' = IF cur.blockhash # 0
                    THEN [cur EXCEPT !.signature = 0]
                    ELSE [blockhash |-> blockhash, lastValidBlockHeight |-> blockhash + 150,
                          signature |-> 0]
          /\ sent' = Append(sent, Envelope(Len(sent) + 1, instructions, "v0", cur'.blockhash,
                                           lookupTableAccount))
          /\ trace' = Append(trace, Event("getLatestBlockhash", "ok", "", blockhash))
          /\ pc' = "await_sendTransaction"
          /\ UNCHANGED <<lastError, result>>
       \/ /\ Catch(call, Err(NetworkErrorText),
                   Append(trace, Event("getLatestBlockhash", "throw", NetworkErrorText, 0)),
                   attempt)
          /\ UNCHANGED <<cur, sent>>
    /\ UNCHANGED <<lookupTableAccount, call, instructions, attempt>>
    /\ UNCHANGED <<codecVars, loader>>

\* getLatestBlockhash settles; the V0 message is compiled against the
\* lookup table, signed and handed to sendTransaction
GetLatestBlockhashReturns ==
    /\ pc = "await_getLatestBlockhash"
    /\ \/ LET blockhash == Len(trace) IN
          /\ cur' = [blockhash |-> blockhash, lastValidBlockHeight |-> blockhash + 150,
                     signature |-> 0]
          /\ sent' = Append(sent, Envelope(Len(sent) + 1, instructions, "v0", blockhash,
                                           lookupTableAccount))
          /\ trace' = Append(trace, Event("getLatestBlockhash", "ok", "", blockhash))
          /\ pc' = "await_sendTransaction"
          /\ UNCHANGED <<lastError, result>>
       \/ /\ Catch(call, Err(NetworkErrorText),
                   Append(trace, Event("getLatestBlockhash", "throw", NetworkErrorText, 0)),
                   attempt)
          /\ UNCHANGED <<cur, sent>>
    /\ UNCHANGED <<lookupTableAccount, call, instructions, attempt>>
    /\ UNCHANGED <<codecVars, loader>>

SendTransactionReturns ==
    /\ pc = "await_sendTransaction"
    /\ \/ /\ cur' = [cur EXCEPT !.signature = sent[Len(sent)].signature]
          /\ trace' = Append(trace, Event("sendTransaction", "ok", "", cur'.signature))
          /\ pc' = "await_confirmTransactionV0"
          /\ UNCHANGED <<lastError, result>>
       \/ \E e \in MessageSendErrors :
             /\ Catch(call, e, Append(trace, Event("sendTransaction", "throw", e.message, 0)),
                      attempt)
             /\ UNCHANGED cur
    /\ UNCHANGED <<lookupTableAccount, call, instructions, attempt, sent>>
    /\ UNCHANGED <<codecVars, loader>>

\* what executeV0Transaction does with a settled confirmation: the value of
\* confirmTransaction is dropped and the signature returned
V0Confirmed(err) == Ok(cur.signature)

\* executeV0Transaction after confirmTransaction({signature, blockhash, lastValidBlockHeight})
ConfirmV0Returns ==
    /\ pc = "await_confirmTransactionV0"
    /\ \/ /\ result' = V0Confirmed("")
          /\ pc' = "done"
          /\ trace' = Append(trace, Event("confirmTransaction", "ok", "", cur.signature))
          /\ UNCHANGED lastError
       \/ \E j \in ExecErrors :
             /\ result' = V0Confirmed(j)
             /\ pc' = "done"
             /\ trace' = Append(trace, Event("confirmTransaction", "err", j, cur.signature))
             /\ UNCHANGED lastError
       \/ Catch(call, Err(ConfirmTimeoutText),
                Append(trace, Event("confirmTransaction", "throw", ConfirmTimeoutText,
                                    cur.signature)),
                attempt)
    /\ UNCHANGED <<lookupTableAccount, call, instructions, attempt, cur, sent>>
    /\ UNCHANGED <<codecVars, loader>>

\* the promise of the call settles and the caller may call again
Return ==
    /\ pc = "done"
    /\ pc' = "idle"
    /\ call' = NoValue
    /\ instructions' = <<>>
    /\ attempt' = 0
    /\ lastError' = NoValue
    /\ cur' = NoCur
    /\ sent' = <<>>
    /\ trace' = <<>>
    /\ result' = NoValue
    /\ UNCHANGED lookupTableAccount
    /\ UNCHANGED <<codecVars, loader>>

(***************************************************************************)
(* sdk.ts: loadLookupTable.                                                *)
(***************************************************************************)
LookupTableNotFoundText == "Lookup table not found: ALT"

\* addresses.some(addr => addr.equals(gasHandlerProgramId))
HasGasHandler(table) ==
    \E i \in 1..Len(table.addresses) : table.addresses[i] = GasHandlerProgramId

loadLookupTable ==
    /\ CanCall
    /\ call' = [op |-> "loadLookupTable", name |-> "loadLookupTable", variant |-> "load",
                maxRetries |-> 0, lookupTableAddress |-> LookupTableAddress]
    /\ pc' = "await_getAddressLookupTable"
    /\ attempt' = 0
    /\ UNCHANGED <<lookupTableAccount, instructions, lastError, cur, sent, trace, result>>
    /\ UNCHANGED <<codecVars, loader>>

\* variant: a table without the gas handler program is refused
GetAddressLookupTableRequiresGasHandler ==
    /\ pc = "await_getAddressLookupTable"
    /\ \E value \in LookupTableValues :
          IF value = NoValue \/ ~HasGasHandler(value)
          THEN /\ result' = Throw(LookupTableNotFoundText)
               /\ trace' = Append(trace, Event("getAddressLookupTable",
                                                IF value = NoValue THEN "null" ELSE "ok", "", 0))
               /\ UNCHANGED lookupTableAccount
          ELSE /\ lookupTableAccount' = value
               /\ result' = Ok(0)
               /\ trace' = trace \o
                    <<Event("getAddressLookupTable", "ok", "", Len(value.addresses)),
                      Event("console.log", "-", "Gas handler program found in ALT", 0)>>
    /\ pc' = "done"
    /\ UNCHANGED <<call, instructions, attempt, lastError, cur, sent>>
    /\ UNCHANGED <<codecVars, loader>>

\* connection.getAddressLookupTable(address) settles; the rest of
\* loadLookupTable runs to its end
GetAddressLookupTableReturns ==
    /\ pc = "await_getAddressLookupTable"
    /\ \E value \in LookupTableValues :
          IF value = NoValue
          THEN /\ result' = Throw(LookupTableNotFoundText)
               /\ trace' = Append(trace, Event("getAddressLookupTable", "null", "", 0))
               /\ UNCHANGED lookupTableAccount
          ELSE /\ lookupTableAccount' = value
               /\ result' = Ok(0)
               /\ trace' = trace \o
                    <<Event("getAddressLookupTable", "ok", "", Len(value.addresses)),
                      IF HasGasHandler(value)
                      THEN Event("console.log", "-", "Gas handler program found in ALT", 0)
                      ELSE Event("console.warn", "-",
                                 "WARNING: Gas handler program not found in ALT.", 0)>>
    /\ pc' = "done"
    /\ UNCHANGED <<call, instructions, attempt, lastError, cur, sent>>
    /\ UNCHANGED <<codecVars, loader>>

SdkNext ==
    \/ initializeGateway
    \/ TxBuilderReturns
    \/ ConfirmReturns
    \/ SleepEnds
    \/ createTxPdaWithSignatures
    \/ processMessageWithSignatures
    \/ SendAndConfirmReturns
    \/ createTxPdaWithSignaturesV0
    \/ processMessageWithSignaturesV0
    \/ GetAccountInfoReturns
    \/ GetLatestBlockhashReturns
    \/ SendTransactionReturns
    \/ ConfirmV0Returns
    \/ Return
    \/ loadLookupTable
    \/ GetAddressLookupTableReturns

(***************************************************************************)
(* sdk.ts: loadLookupTable called on the same instance while a Compact     *)
(* create operation is in progress.  The caller does not await the         *)
(* operation before calling loadLookupTable; it awaits a loadLookupTable   *)
(* before calling loadLookupTable again.                                   *)
(***************************************************************************)
loadLookupTableConcurrently ==
    /\ loader.pc = "idle"
    /\ loader' = [pc |-> "await_getAddressLookupTable", result |-> NoValue, log |-> NoValue]
    /\ UNCHANGED <<lookupTableAccount, pc, call, instructions, attempt, lastError,
                   cur, sent, trace, result>>
    /\ UNCHANGED codecVars

\* connection.getAddressLookupTable(address) of the concurrent call settles;
\* the rest of loadLookupTable runs to its end
ConcurrentGetAddressLookupTableReturns ==
    /\ loader.pc = "await_getAddressLookupTable"
    /\ \E value \in LookupTableValues :
          IF value = NoValue
          THEN /\ loader' = [pc |-> "idle", result |-> Throw(LookupTableNotFoundText),
                             log |-> NoValue]
               /\ UNCHANGED lookupTableAccount
          ELSE /\ lookupTableAccount' = value
               /\ loader' = [pc |-> "idle", result |-> Ok(0),
                             log |-> IF HasGasHandler(value)
                                     THEN Event("console.log", "-",
                                                "Gas handler program found in ALT", 0)
                                     ELSE Event("console.warn", "-",
                                                "WARNING: Gas handler program not found in ALT.",
                                                0)]
    /\ UNCHANGED <<pc, call, instructions, attempt, lastError, cur, sent, trace, result>>
    /\ UNCHANGED codecVars

ConcurrentNext ==
    \/ createTxPdaWithSignaturesV0
    \/ GetLatestBlockhashReturns
    \/ SendTransactionReturns
    \/ ConfirmV0Returns
    \/ SleepEnds
    \/ Return
    \/ loadLookupTableConcurrently
    \/ ConcurrentGetAddressLookupTableReturns

(***************************************************************************)
(* Address harness: one call of a chain-keyed method of ViaLabsPDAs, with  *)
(* its validation, on the integers of the message drawn.                   *)
(***************************************************************************)
BufferTooLongText == "byte array longer than desired length"

RegistryTypes == {"via", "chain", "project", "client", ""}

\* the methods called, each with the registry types it is called with
PdaCalls ==
    { <<"getSignerRegistryPda", t>> : t \in RegistryTypes }
    \cup { <<fn, "-">> : fn \in {"getGatewayPda", "getCounterPda", "getTxCounterPda",
                                 "getTxIdPda"} }

\* the public method fn of ViaLabsPDAs, from its first statement to its return
PdaMethod(fn, registryType, chainId, txId) ==
    IF ~validateChainId(chainId) THEN Throw(InvalidChainIdText(chainId))
    ELSE IF fn = "getTxIdPda" /\ ~validateTxId(txId) THEN Throw(InvalidTxIdText(txId))
    ELSE IF fn = "getSignerRegistryPda" /\ ~registryTypeToDiscriminant(registryType).ok
    THEN registryTypeToDiscriminant(registryType)
    ELSE IF ~BNFits(chainId, CHAIN_ID_BYTES) THEN Throw(BufferTooLongText)
    ELSE IF fn = "getTxIdPda" /\ ~BNFits(txId, TX_ID_BYTES) THEN Throw(BufferTooLongText)
    ELSE Ok(CASE fn = "getGatewayPda" -> getGatewayPda(chainId)
              [] fn = "getSignerRegistryPda" -> getSignerRegistryPda(registryType, chainId)
              [] fn = "getCounterPda" -> getCounterPda(chainId)
              [] fn = "getTxCounterPda" -> getTxCounterPda(chainId)
              [] fn = "getTxIdPda" -> getTxIdPda(chainId, txId))

\* the exported deriveDecodedMessagePda(txId, clientProgramId): the address
deriveDecodedMessagePda(txId, clientProgramId) ==
    IF ~validateTxId(txId) THEN Throw(InvalidTxIdText(txId))
    ELSE IF ~BNFits(txId, 8) THEN Throw(BufferTooLongText)
    ELSE Ok(FindProgramAddress(<<"decoded", ToArrayLikeLE(txId, 8)>>, clientProgramId))

\* derivations are tried on one message per triple of integers
DerivePda ==
    /\ cenc = NoValue /\ cpda = NoValue
    /\ Len(cmsg.sender) = 20
    /\ \E c \in PdaCalls, chainId \in {cmsg.sourceChainId, cmsg.destChainId} \cup ChainIds :
          cpda' = [fn |-> c[1], registryType |-> c[2], chainId |-> chainId,
                   txId |-> cmsg.txId,
                   result |-> PdaMethod(c[1], c[2], chainId, cmsg.txId)]
    /\ UNCHANGED <<cmsg, cenc, cbuf, cdec>>
    /\ UNCHANGED sdkVars

CodecNext ==
    \/ Encode
    \/ DecodeEncoded
    \/ DecodeTruncated
    \/ DecodeExtended
    \/ DecodeReprefixed
    \/ DecodeForeign
    \/ DerivePda

Init == SdkInit /\ CodecIdle

Next == SdkNext

Spec == Init /\ [][Next]_vars

CodecSpecInit == CodecInit /\ SdkInit

CodecSpec == CodecSpecInit /\ [][CodecNext]_vars

ConcurrentSpec == Init /\ [][ConcurrentNext]_vars

(***************************************************************************)
(* Properties of the codec, checked under CodecSpec.                       *)
(***************************************************************************)
WithinBounds(m) ==
    /\ Len(m.sender) <= 64
    /\ Len(m.recipient) <= 64
    /\ Len(m.onChainData) <= 1024
    /\ Len(m.offChainData) <= 1024

\* the fields in the order they are checked: name in the error text, length, bound
SizedFields(m) ==
    << <<"Sender", Len(m.sender), 64>>,
       <<"Recipient", Len(m.recipient), 64>>,
       <<"On-chain data", Len(m.onChainData), 1024>>,
       <<"Off-chain data", Len(m.offChainData), 1024>> >>

\* C2: round trip. Every message with txId below 2^128, chain IDs below 2^64
\* and all variable fields within their bounds encodes successfully, and
\* decoding the encoding succeeds and returns the message, field by field.
C2_RoundTrip ==
    /\ (cenc # NoValue /\ IntsInRange(cmsg) /\ WithinBounds(cmsg)) => cenc.ok
    /\ (cbuf # NoValue /\ cbuf.how = "exact" /\ IntsInRange(cmsg) /\ WithinBounds(cmsg)) =>
          /\ cdec.ok
          /\ cdec.value.txId = cmsg.txId
          /\ cdec.value.sourceChainId = cmsg.sourceChainId
          /\ cdec.value.destChainId = cmsg.destChainId
          /\ cdec.value.sender = cmsg.sender
          /\ cdec.value.recipient = cmsg.recipient
          /\ cdec.value.onChainData = cmsg.onChainData
          /\ cdec.value.offChainData = cmsg.offChainData

\* a round trip of a message with txId = 2^128 - 1, sender and onChainData at
\* their maximum length and recipient and offChainData empty
C2_Witness ==
    /\ cbuf # NoValue /\ cbuf.how = "exact" /\ cdec.ok
    /\ cmsg.txId.mag = [i \in 1..16 |-> 255]
    /\ Len(cmsg.sender) = 64 /\ Len(cmsg.recipient) = 0
    /\ Len(cmsg.onChainData) = 1024 /\ Len(cmsg.offChainData) = 0

\* C3: size rejection. With integers in range, encoding fails exactly when a
\* variable field exceeds its bound; the error then names the first field
\* over its bound with its observed and its maximum length, and a failed
\* encoding carries no bytes.
C3_SizeRejection ==
    cenc # NoValue =>
      /\ IntsInRange(cmsg) => (cenc.ok <=> WithinBounds(cmsg))
      /\ ~WithinBounds(cmsg) =>
            LET f == SizedFields(cmsg)
                k == CHOOSE i \in 1..4 : f[i][2] > f[i][3] /\ \A j \in 1..(i - 1) : f[j][2] <= f[j][3]
            IN /\ ~cenc.ok
               /\ Includes(cenc.error, f[k][1])
               /\ Includes(cenc.error, ": " \o Dec(f[k][2]) \o " bytes")
               /\ Includes(cenc.error, "(max " \o Dec(f[k][3]) \o ")")
      /\ ~cenc.ok => "value" \notin DOMAIN cenc

\* onChainData one byte over its bound, every other field exactly at its bound
C3_Witness ==
    /\ cenc # NoValue /\ ~cenc.ok
    /\ Len(cmsg.sender) = 64 /\ Len(cmsg.recipient) = 64
    /\ Len(cmsg.onChainData) = 1025 /\ Len(cmsg.offChainData) = 1024

\* the four lengths the prefixes of a buffer declare, read front to back
DeclaredLengths(b) ==
    LET d1 == ReadUInt32LE(b, 32)
        d2 == ReadUInt32LE(b, 36 + d1)
        d3 == ReadUInt32LE(b, 40 + d1 + d2)
        d4 == ReadUInt32LE(b, 44 + d1 + d2 + d3)
    IN <<d1, d2, d3, d4>>

\* C4: decoding consumes the input exactly. It succeeds only when the
\* buffer length is 48 plus the four declared lengths; a buffer cut short
\* fails as too short, a buffer with bytes after offChainData fails as
\* having extra data, and every failure is one of these two.
C4_ExactConsumption ==
    cbuf # NoValue =>
      /\ cdec.ok =>
            LET d == DeclaredLengths(cbuf.bytes)
            IN Len(cbuf.bytes) = 48 + d[1] + d[2] + d[3] + d[4]
      /\ ~cdec.ok => \/ Includes(cdec.error, "Buffer too short")
                     \/ Includes(cdec.error, "Buffer has extra data")
      /\ cbuf.how = "exact" => cdec.ok
      /\ cbuf.how = "truncated" => ~cdec.ok /\ Includes(cdec.error, "Buffer too short")
      /\ cbuf.how = "extended" => ~cdec.ok /\ Includes(cdec.error, "Buffer has extra data")

\* an encoding followed by one more byte was decoded
C4_Witness ==
    /\ cbuf # NoValue /\ cbuf.how = "extended" /\ ~cdec.ok
    /\ Len(cbuf.bytes) = Len(cenc.value) + 1

(***************************************************************************)
(* Properties of the SDK instance, checked under Spec.                     *)
(***************************************************************************)
IsMessageCall ==
    /\ call # NoValue
    /\ call.op \in {"createTxPdaWithSignatures", "processMessageWithSignatures",
                    "createTxPdaWithSignaturesV0", "processMessageWithSignaturesV0"}

\* C1: signer ordering. Every envelope a message operation hands to the
\* network holds, for the caller's signer list s1..sn, exactly n + 1
\* instructions: the i-th is the verification unit of si over the message
\* digest, and the last is the main operation of the gateway program. A
\* unit's place is therefore the place of its signer in the input, so
\* swapping two signers swaps their units.
C1_SignerOrdering ==
    IsMessageCall =>
      \A k \in 1..Len(sent) :
         LET ins == sent[k].instructions
             n == Len(call.signatures)
         IN /\ Len(ins) = n + 1
            /\ \A i \in 1..n :
                  /\ ins[i].programId # GatewayProgram
                  /\ ins[i] = createEd25519Instruction(call.signatures[i].signature,
                                                       call.signatures[i].signer,
                                                       createMessageHash(call.message).value)
            /\ ins[n + 1].programId = GatewayProgram
            /\ ins[n + 1].method = call.name
            /\ ins[n + 1].args = MessageArgs(call.message)

\* processMessageWithSignaturesV0 sent an envelope for the signer list [B, A]
C1_Witness ==
    /\ IsMessageCall
    /\ call.op = "processMessageWithSignaturesV0"
    /\ Len(call.signatures) = 2
    /\ call.signatures[1].signer = "B" /\ call.signatures[2].signer = "A"
    /\ Len(sent) >= 1

\* the non-retryable vocabulary, lower-cased
Vocabulary ==
    {"already in use", "invalid", "insufficient", "txidalreadyexists", "txidnotfound",
     "systemdisabled", "signernotregistered"}

\* every error message an attempt can fail with
AttemptErrorTexts ==
    { e.message : e \in SendErrors \cup MessageSendErrors }
    \cup { "Transaction failed: " \o j : j \in ExecErrors }
    \cup { InvalidChainIdText(c) : c \in ChainIds }
    \cup { ConfirmTimeoutText, NetworkErrorText }

\* whether a message contains an entry of the vocabulary, in any letter case
VocabularyMatch ==
    [msg \in AttemptErrorTexts |->
        LET lowered == ToLowerCase(msg) IN \E v \in Vocabulary : Includes(lowered, v)]

InVocabulary(msg) == VocabularyMatch[msg]

CountEvents(op) == Cardinality({ j \in 1..Len(trace) : trace[j].op = op })

CaughtEvents == { j \in 1..Len(trace) : trace[j].op = "caught" }

\* C5: a failure whose message contains an entry of the non-retryable
\* vocabulary, in any letter case, ends the call: it is the last event of
\* the call, the operation was invoked once per attempt up to and including
\* the failing one and never again, no backoff sleep follows it, and the
\* surfaced error contains the underlying error text unchanged.
C5_NonRetryableNeverRetried ==
    \A i \in CaughtEvents :
       InVocabulary(trace[i].msg) =>
          /\ i = Len(trace)
          /\ pc = "done"
          /\ ~result.ok
          /\ Includes(result.error, trace[i].msg)
          /\ CountEvents("invoke") = trace[i].num
          /\ CountEvents("sleep") = trace[i].num - 1

\* a first attempt failed with a retryable error and the second with
\* "... Invalid param ...", which matches "invalid" only without regard to case
C5_Witness ==
    /\ pc = "done"
    /\ Len(trace) >= 1
    /\ trace[Len(trace)].op = "caught"
    /\ trace[Len(trace)].num = 2
    /\ Includes(trace[Len(trace)].msg, "Invalid param")

\* C6: when every attempt of executeWithRetry failed with a retryable error,
\* the operation was invoked exactly N = 3 times and the call fails with
\* "<name> failed after 3 attempts: " followed by the message of the last
\* underlying error.
C6_ExhaustedAfterCap ==
    (/\ pc = "done"
     /\ ~result.ok
     /\ CaughtEvents # {}
     /\ \A i \in CaughtEvents : ~InVocabulary(trace[i].msg)) =>
       LET last == CHOOSE i \in CaughtEvents : \A j \in CaughtEvents : j <= i
       IN /\ call.maxRetries = 3
          /\ CountEvents("invoke") = 3
          /\ Cardinality(CaughtEvents) = 3
          /\ result.error = call.name \o " failed after 3 attempts: " \o trace[last].msg

\* three failed attempts whose first and last errors differ
C6_Witness ==
    /\ pc = "done"
    /\ ~result.ok
    /\ Cardinality(CaughtEvents) = 3
    /\ \A i \in CaughtEvents : ~InVocabulary(trace[i].msg)
    /\ \E i \in CaughtEvents : trace[i].num = 1 /\ trace[i].msg # trace[Len(trace)].msg

\* C7: a call never returns as its value the signature of an envelope for
\* which the ledger reported an execution error.
C7_ExecErrorNeverSuccess ==
    (pc = "done" /\ result.ok) =>
       ~ \E i \in 1..Len(trace) :
            /\ trace[i].op = "confirmTransaction"
            /\ trace[i].outcome = "err"
            /\ trace[i].num = result.value

\* C8: after the confirmation of a sent envelope timed out, no further
\* envelope is sent: the envelope whose confirmation timed out is the last.
C8_NoResendAfterConfirmTimeout ==
    \A i \in 1..Len(trace) :
       (trace[i].op = "confirmTransaction" /\ trace[i].outcome = "throw") =>
          Len(sent) = trace[i].num

\* C9: a message operation called with an empty signer list fails with the
\* no-signatures error and submits nothing.
C9_EmptySignerListFails ==
    (IsMessageCall /\ call.signatures = <<>>) =>
       /\ sent = <<>>
       /\ pc = "done"
       /\ ~result.ok
       /\ result.error = "At least one signature is required"

\* C10: a V0 message operation called with 4 or more signers fails with the
\* too-many-signatures error and sends nothing; called with 1 to 3 signers
\* it never fails with the too-many-signatures or the no-signatures error.
C10_V0SignerCap ==
    (IsMessageCall /\ call.variant = "v0") =>
       LET n == Len(call.signatures) IN
       /\ n >= 4 => /\ pc = "done"
                    /\ ~result.ok
                    /\ Includes(result.error, "Too many signatures")
                    /\ Includes(result.error, Dec(n) \o " provided, maximum 3 supported")
                    /\ sent = <<>>
       /\ (n \in 1..3 /\ pc = "done" /\ ~result.ok) =>
             /\ ~Includes(result.error, "Too many signatures")
             /\ result.error # "At least one signature is required"

\* a V0 operation with exactly 3 signers passed the count check and sent its envelope
C10_Witness ==
    /\ IsMessageCall
    /\ call.variant = "v0"
    /\ Len(call.signatures) = 3
    /\ Len(sent) = 1

\* C11: a V0 message operation called while no lookup table is loaded fails
\* with the lookup-table-not-loaded error before any network call of the
\* operation is issued: at every moment of such a call the call has already
\* ended, nothing was read, fetched or sent, and the closure was not invoked.
C11_TableNotLoadedIsLocal ==
    (IsMessageCall /\ call.variant = "v0" /\ lookupTableAccount = NoValue
        /\ call.message = MsgOk /\ Len(call.signatures) \in 1..3) =>
       /\ pc = "done"
       /\ trace = <<>>
       /\ sent = <<>>
       /\ ~result.ok
       /\ result.error = "Lookup table not loaded. Call loadLookupTable() first."

\* the fields of a message as the arguments of a main instruction carry them
ArgsMessage(args) ==
    [txId |-> args[1], sourceChainId |-> args[2], destChainId |-> args[3],
     sender |-> args[4], recipient |-> args[5], onChainData |-> args[6],
     offChainData |-> args[7]]

\* C12: in every envelope of a message operation all verification units
\* carry one digest, and it is keccak256 of the encoding of the message
\* fields that the main operation of the same envelope has as its arguments.
C12_OneDigestOfMainArguments ==
    IsMessageCall =>
      \A k \in 1..Len(sent) :
         LET ins == sent[k].instructions
             main == ins[Len(ins)]
             m == ArgsMessage(main.args)
             encoded == encodeViaMessage(m.txId, m.sourceChainId, m.destChainId, m.sender,
                                         m.recipient, m.onChainData, m.offChainData)
         IN /\ encoded.ok
            /\ \A i \in 1..(Len(ins) - 1) :
                  ins[i].message = [keccak256 |-> encoded.value]

\* an envelope with three units over one message was sent
C12_Witness ==
    /\ IsMessageCall
    /\ Len(sent) >= 1
    /\ Len(sent[1].instructions) = 4
    /\ sent[1].instructions[4].method = "processMessage"

IsStandardMessageCall ==
    /\ call # NoValue
    /\ call.op \in {"createTxPdaWithSignatures", "processMessageWithSignatures"}

\* C13: the Standard message operations run under the retry policy: when
\* such a call has ended after a transient failure of its submission, the
\* submission was attempted 3 times and the error is the exhausted-retries one.
C13_StandardMessageOpsRetry ==
    (/\ IsStandardMessageCall
     /\ pc = "done"
     /\ Len(trace) >= 1
     /\ trace[Len(trace)].outcome = "throw"
     /\ trace[Len(trace)].msg = NetworkErrorText) =>
       /\ Len(sent) = 3
       /\ ~result.ok
       /\ Includes(result.error, "failed after 3 attempts")

\* C14: every byte sequence that decodeViaMessage accepts is the encoding of
\* the message it decodes to: encodeViaMessage of the decoded fields
\* succeeds and returns exactly that byte sequence.
C14_AcceptedBytesAreEncodings ==
    (cbuf # NoValue /\ cdec.ok) =>
       LET again == EncodeMsg(cdec.value)
       IN /\ again.ok
          /\ again.value = cbuf.bytes

\* byte i (counted from 1) of the little-endian form of bn in a field of the given width
LEByte(bn, i) == IF i <= Len(bn.mag) THEN bn.mag[Len(bn.mag) - i + 1] ELSE 0

\* the 4 little-endian bytes of a length below 2^16
LengthPrefix(n) == <<n % 256, n \div 256, 0, 0>>

\* C15: the encoding of a message is txId in 16 little-endian bytes, the two
\* chain IDs in 8 little-endian bytes each, then sender, recipient,
\* onChainData and offChainData, each after its length in 4 little-endian
\* bytes; in all 48 bytes plus the four field lengths, 196 for field lengths
\* 20, 32, 96 and 0.
C15_WireLayout ==
    (cenc # NoValue /\ cenc.ok) =>
       LET b == cenc.value
           a == 32
           r == a + 4 + Len(cmsg.sender)
           o == r + 4 + Len(cmsg.recipient)
           f == o + 4 + Len(cmsg.onChainData)
       IN /\ Len(b) = 48 + Len(cmsg.sender) + Len(cmsg.recipient)
                         + Len(cmsg.onChainData) + Len(cmsg.offChainData)
          /\ \A i \in 1..16 : b[i] = LEByte(cmsg.txId, i)
          /\ \A i \in 1..8 : b[16 + i] = LEByte(cmsg.sourceChainId, i)
          /\ \A i \in 1..8 : b[24 + i] = LEByte(cmsg.destChainId, i)
          /\ SubSeq(b, a + 1, a + 4) = LengthPrefix(Len(cmsg.sender))
          /\ SubSeq(b, a + 5, r) = cmsg.sender
          /\ SubSeq(b, r + 1, r + 4) = LengthPrefix(Len(cmsg.recipient))
          /\ SubSeq(b, r + 5, o) = cmsg.recipient
          /\ SubSeq(b, o + 1, o + 4) = LengthPrefix(Len(cmsg.onChainData))
          /\ SubSeq(b, o + 5, f) = cmsg.onChainData
          /\ SubSeq(b, f + 1, f + 4) = LengthPrefix(Len(cmsg.offChainData))
          /\ SubSeq(b, f + 5, Len(b)) = cmsg.offChainData
          /\ (Len(cmsg.sender) = 20 /\ Len(cmsg.recipient) = 32
                /\ Len(cmsg.onChainData) = 96 /\ Len(cmsg.offChainData) = 0)
                => Len(b) = 196

\* the 196-byte encoding of a message with txId = 1 and sourceChainId = 43113
C15_Witness ==
    /\ cenc # NoValue /\ cenc.ok
    /\ Len(cenc.value) = 196
    /\ cmsg.txId.mag = <<1>>
    /\ cmsg.sourceChainId.mag = <<168, 105>>

InvokeEvents == { j \in 1..Len(trace) : trace[j].op = "invoke" }

SleepEvents == { j \in 1..Len(trace) : trace[j].op = "sleep" }

\* C16: the sleep after failed attempt k (1 <= k < 3) lasts 1000 * 2^(k-1)
\* ms, that is 1000 after the first and 2000 after the second; a retryable
\* failure of an attempt below the cap is followed at once by its sleep,
\* exactly one sleep lies between two consecutive invocations, and no sleep
\* follows the failure of attempt 3 or a non-retryable failure.
C16_ExponentialBackoff ==
    /\ \A j \in SleepEvents :
          /\ j > 1
          /\ trace[j - 1].op = "caught"
          /\ trace[j - 1].num \in 1..2
          /\ ~InVocabulary(trace[j - 1].msg)
          /\ trace[j].num = 1000 * 2 ^ (trace[j - 1].num - 1)
          /\ trace[j - 1].num = 1 => trace[j].num = 1000
          /\ trace[j - 1].num = 2 => trace[j].num = 2000
    /\ \A i \in CaughtEvents :
          IF trace[i].num >= 3 \/ InVocabulary(trace[i].msg)
          THEN i = Len(trace)
          ELSE i < Len(trace) /\ trace[i + 1].op = "sleep"
    /\ \A i, j \in InvokeEvents :
          (i < j /\ ~ \E x \in InvokeEvents : i < x /\ x < j) =>
             Cardinality({ s \in SleepEvents : i < s /\ s < j }) = 1

\* a call that slept 1000 ms and then 2000 ms and failed its third attempt
C16_Witness ==
    /\ pc = "done"
    /\ Cardinality(SleepEvents) = 2
    /\ \E i, j \in SleepEvents : i < j /\ trace[i].num = 1000 /\ trace[j].num = 2000
    /\ trace[Len(trace)].op = "caught"

TableHasGasHandler ==
    \E i \in 1..Len(lookupTableAccount.addresses) :
       lookupTableAccount.addresses[i] = [address |-> "GasHandlerV4"]

\* C17: loadLookupTable fails with the not-found error when the address
\* resolves to no table; otherwise it completes normally with the resolved
\* table stored, whether or not the gas handler program is among its
\* addresses, warning exactly when it is not; and a V0 operation called with
\* such a table loaded is not refused for want of a table.
C17_LoadLookupTable ==
    /\ (call # NoValue /\ call.op = "loadLookupTable" /\ pc = "done") =>
          IF trace[1].outcome = "null"
          THEN /\ ~result.ok
               /\ Includes(result.error, "Lookup table not found")
          ELSE /\ result.ok
               /\ lookupTableAccount # NoValue
               /\ lookupTableAccount.key = call.lookupTableAddress
               /\ Len(lookupTableAccount.addresses) = trace[1].num
               /\ (\E j \in 1..Len(trace) : trace[j].op = "console.warn")
                     <=> ~TableHasGasHandler
    /\ (IsMessageCall /\ call.variant = "v0" /\ lookupTableAccount # NoValue
          /\ pc = "done" /\ ~result.ok) =>
          ~Includes(result.error, "Lookup table not loaded")

\* a table without the gas handler program was loaded with a warning
C17_Witness ==
    /\ call # NoValue /\ call.op = "loadLookupTable" /\ pc = "done"
    /\ result.ok
    /\ ~TableHasGasHandler
    /\ \E j \in 1..Len(trace) : trace[j].op = "console.warn"

(***************************************************************************)
(* Properties of address derivation, checked under CodecSpec.              *)
(***************************************************************************)
\* bn in little-endian bytes of the given width
LEBytes(bn, width) == [i \in 1..width |-> LEByte(bn, i)]

IsU64(bn) == ~bn.negative /\ Len(bn.mag) <= 8

\* C18: for a chain ID that is a u64, getSignerRegistryPda fails with an
\* invalid-registry-type error for every type but via, chain and project,
\* and for these derives the address from exactly three seeds: the tag
\* "signer_registry", one byte 0 (via), 1 (chain) or 2 (project), and the
\* chain ID in 8 little-endian bytes.
C18_RegistryDiscriminant ==
    (cpda # NoValue /\ cpda.fn = "getSignerRegistryPda" /\ IsU64(cpda.chainId)) =>
       LET t == cpda.registryType
           d == IF t = "via" THEN 0 ELSE IF t = "chain" THEN 1 ELSE 2
       IN IF t \in {"via", "chain", "project"}
          THEN /\ cpda.result.ok
               /\ cpda.result.value.seeds =
                     <<"signer_registry", <<d>>, LEBytes(cpda.chainId, 8)>>
          ELSE /\ ~cpda.result.ok
               /\ cpda.result.error = "Invalid registry type: " \o t

\* the project registry of chain 43113 was derived
C18_Witness ==
    /\ cpda # NoValue /\ cpda.fn = "getSignerRegistryPda"
    /\ cpda.registryType = "project"
    /\ cpda.chainId.mag = <<168, 105>>
    /\ cpda.result.ok

IsZero(bn) == bn.mag = <<>>

\* C19: nothing is encoded, and no chain-keyed address is derived, for a
\* chain ID equal to 0: every successful encoding and every successful
\* derivation has chain IDs different from 0.
C19_ChainIdNeverZero ==
    /\ (cenc # NoValue /\ cenc.ok) =>
          ~IsZero(cmsg.sourceChainId) /\ ~IsZero(cmsg.destChainId)
    /\ (cpda # NoValue /\ cpda.result.ok) => ~IsZero(cpda.chainId)

\* C20: once executeTransaction has seen a confirmation that carries an
\* execution error, the transaction builder is not invoked again and no
\* further envelope is sent for that call.
C20_ExecErrorGoesStraightToFailed ==
    (call # NoValue /\ call.op = "initializeGateway") =>
       \A i \in 1..Len(trace) :
          (trace[i].op = "confirmTransaction" /\ trace[i].outcome = "err") =>
             /\ \A j \in (i + 1)..Len(trace) : trace[j].op # "txBuilder"
             /\ \A k \in 1..Len(sent) : k <= trace[i].num

(***************************************************************************)
(* Properties of executeV0Transaction and of the account maps, checked     *)
(* under Spec.                                                             *)
(***************************************************************************)
IsV0Call == call # NoValue /\ call.variant = "v0"

V0NetworkOps == {"getLatestBlockhash", "sendTransaction", "confirmTransaction"}

\* the network call a Compact submission is suspended at, from the history:
\* the call issued after the last completed event and not yet returned
InFlight ==
    IF pc = "await_getLatestBlockhash" THEN "getLatestBlockhash"
    ELSE IF pc = "await_sendTransaction" THEN "sendTransaction"
    ELSE IF pc = "await_confirmTransactionV0" THEN "confirmTransaction"
    ELSE "none"

\* C21: within every attempt of executeV0Transaction the network calls are
\* issued in the order getLatestBlockhash, sendTransaction, confirmTransaction,
\* each only after the previous one returned a value, and attempt k + 1 begins
\* only after a call of attempt k threw, the error was caught as retryable and
\* the backoff sleep of attempt k ended.
C21_LinearSubmission ==
    IsV0Call =>
       /\ \A i \in 1..Len(trace) :
             LET e == trace[i] IN
             /\ e.op = "getLatestBlockhash" => i > 1 /\ trace[i - 1].op = "invoke"
             /\ e.op = "sendTransaction" =>
                   /\ i > 1
                   /\ trace[i - 1].op = "getLatestBlockhash"
                   /\ trace[i - 1].outcome = "ok"
             /\ e.op = "confirmTransaction" =>
                   /\ i > 1
                   /\ trace[i - 1].op = "sendTransaction"
                   /\ trace[i - 1].outcome = "ok"
             /\ (e.op = "invoke" /\ e.num = 1) =>
                   \A j \in 1..(i - 1) : trace[j].op = "getAccountInfo"
             /\ (e.op = "invoke" /\ e.num > 1) =>
                   /\ i > 3
                   /\ trace[i - 1].op = "sleep"
                   /\ trace[i - 1].num = BackoffMs(e.num - 1)
                   /\ trace[i - 2].op = "caught"
                   /\ trace[i - 2].outcome = "retry"
                   /\ trace[i - 2].num = e.num - 1
                   /\ trace[i - 3].op \in V0NetworkOps
                   /\ trace[i - 3].outcome = "throw"
       /\ InFlight = "getLatestBlockhash" =>
             trace # <<>> /\ trace[Len(trace)].op = "invoke"
       /\ InFlight = "sendTransaction" =>
             trace # <<>> /\ trace[Len(trace)].op = "getLatestBlockhash"
       /\ InFlight = "confirmTransaction" =>
             trace # <<>> /\ trace[Len(trace)].op = "sendTransaction"
       /\ pc = "await_sleep" => trace # <<>> /\ trace[Len(trace)].op = "sleep"

\* a Compact submission confirmed by its second attempt
C21_Witness ==
    /\ IsV0Call
    /\ pc = "done"
    /\ result.ok
    /\ attempt = 2
    /\ \E i \in 1..Len(trace) : trace[i].op = "invoke" /\ trace[i].num = 2
    /\ trace[Len(trace)].op = "confirmTransaction"

\* the instruction list a Compact operation hands to executeV0Transaction,
\* rebuilt from the arguments of the call and the answer of the account read
BuiltBeforeFirstAttempt ==
    IF call.op = "createTxPdaWithSignaturesV0"
    THEN BuildCreateTxPdaV0(call.message, call.signatures).value
    ELSE AddMain(BuildUnitsV0(call.message, call.signatures).value,
                 ProcessMessageInstructionV0(call.message, call.includeProjectRegistry,
                                             call.remainingAccounts,
                                             trace[1].outcome).value)

\* positions in the history of the blockhashes fetched by this call
BlockhashEvents ==
    { i \in 1..Len(trace) : trace[i].op = "getLatestBlockhash" /\ trace[i].outcome = "ok" }

\* C22: every envelope of a Compact submission carries the instruction list
\* built before the first attempt, unchanged; every attempt begins by fetching
\* a blockhash, the envelope of the attempt is built with the blockhash that
\* attempt fetched, and the confirmation of the attempt is asked for with the
\* signature, blockhash and last valid block height of that same attempt.
C22_SameInstructionsFreshBlockhash ==
    (IsV0Call /\ \E i \in 1..Len(trace) : trace[i].op = "invoke") =>
       /\ instructions = BuiltBeforeFirstAttempt
       /\ \A k \in 1..Len(sent) :
             /\ sent[k].instructions = BuiltBeforeFirstAttempt
             /\ sent[k].version = "v0"
       /\ Len(sent) = Cardinality(BlockhashEvents)
       /\ \A i \in BlockhashEvents :
             sent[Cardinality({j \in BlockhashEvents : j <= i})].blockhash = trace[i].num
       /\ \A i, j \in BlockhashEvents : i # j => trace[i].num # trace[j].num
       /\ \A i \in 1..(Len(trace) - 1) :
             trace[i].op = "invoke" => trace[i + 1].op = "getLatestBlockhash"
       /\ pc = "await_confirmTransactionV0" =>
             /\ cur.signature = sent[Len(sent)].signature
             /\ cur.blockhash = sent[Len(sent)].blockhash
             /\ cur.blockhash = trace[Len(trace) - 1].num
             /\ cur.lastValidBlockHeight = cur.blockhash + 150

\* the third attempt of a Compact submission waits for its confirmation
C22_Witness ==
    /\ IsV0Call
    /\ pc = "await_confirmTransactionV0"
    /\ attempt = 3
    /\ Len(sent) = 3
    /\ sent[1].blockhash # sent[3].blockhash
    /\ sent[1].instructions = sent[3].instructions

\* C23: once this.lookupTableAccount holds a table, no step of any operation,
\* a later loadLookupTable included, changes it.
C23_TableWriteOnce ==
    [][lookupTableAccount # NoValue => lookupTableAccount' = lookupTableAccount]_vars

\* the optional account slots of the processMessage instruction
OptionalAccounts ==
    {"projectRegistry", "decodedMessagePda", "clientConfig", "gasHandlerProgram",
     "gasConfig", "clientGasConfig", "gasPool"}

\* C24: the account map of every processMessage main operation handed to the
\* network, by either variant, has an entry (an address or null) for each of
\* the seven optional account slots.
C24_OptionalAccountsNeverOmitted ==
    \A k \in 1..Len(sent) :
       LET main == sent[k].instructions[Len(sent[k].instructions)] IN
       main.method = "processMessage" => OptionalAccounts \subseteq DOMAIN main.accounts

\* a field of the message is longer than encodeViaMessage allows
FieldTooLarge(m) ==
    \/ Len(m.sender) > MAX_SENDER_SIZE
    \/ Len(m.recipient) > MAX_RECIPIENT_SIZE
    \/ Len(m.onChainData) > MAX_ON_CHAIN_DATA
    \/ Len(m.offChainData) > MAX_OFF_CHAIN_DATA

\* the call in progress has failed without a network call, an envelope, an
\* attempt of the retry loop or a sleep
FailedLocally ==
    /\ pc = "done"
    /\ ~result.ok
    /\ trace = <<>>
    /\ sent = <<>>
    /\ lastError = NoValue

IsValidationError(text) ==
    \/ Includes(text, "too long")
    \/ Includes(text, "too large")
    \/ Includes(text, "Too many signatures")
    \/ text = NoSignaturesText

\* C25: a message operation called with a field that is too large fails
\* locally, and so does a Compact operation called with no signer or with
\* more than 3 signers; whenever a message operation ends with one of these
\* validation errors, no network call was made, nothing was sent and no
\* attempt was repeated.
C25_ValidationIsLocal ==
    IsMessageCall =>
       /\ FieldTooLarge(call.message) => FailedLocally
       /\ (call.variant = "v0" /\ Len(call.signatures) \notin 1..MAX_SIGNATURES_V0) =>
             FailedLocally /\ IsValidationError(result.error)
       /\ (call.variant = "std" /\ FieldTooLarge(call.message)) =>
             IsValidationError(result.error)
       /\ (pc = "done" /\ ~result.ok /\ IsValidationError(result.error)) => FailedLocally

\* processMessageWithSignaturesV0 called with one signer and a sender of 65
\* bytes has failed before its account read
C25_Witness ==
    /\ IsV0Call
    /\ call.op = "processMessageWithSignaturesV0"
    /\ Len(call.signatures) = 1
    /\ Len(call.message.sender) > MAX_SENDER_SIZE
    /\ FailedLocally
    /\ Includes(result.error, "Sender too long")

\* C26: the address processMessageWithSignaturesV0 puts in the
\* decodedMessagePda slot is the one the exported deriveDecodedMessagePda
\* derives for the same txId and client program, from the seeds "decoded" and
\* txId as 8 little-endian bytes.
C26_OneDecodedMessageSeedGrammar ==
    (/\ call # NoValue
     /\ call.op = "processMessageWithSignaturesV0"
     /\ call.remainingAccounts # <<>>
     /\ IsU64(call.message.txId)) =>
       \A k \in 1..Len(sent) :
          LET main == sent[k].instructions[Len(sent[k].instructions)]
              exported == deriveDecodedMessagePda(call.message.txId, call.remainingAccounts[1])
          IN /\ exported.ok
             /\ main.accounts.decodedMessagePda = exported.value
             /\ exported.value.seeds = <<"decoded", LEBytes(call.message.txId, 8)>>

IsProcessV0Call == call # NoValue /\ call.op = "processMessageWithSignaturesV0"

\* C28: in every main operation built by processMessageWithSignaturesV0 the
\* slots gasHandlerProgram, gasConfig and gasPool are addresses when the
\* account read reported an executable account and null otherwise, also when
\* the account read threw, which does not end the call; clientGasConfig is an
\* address exactly when the gas handler is present and a first remaining
\* account was supplied.
C28_GasHandlerAllOrNothing ==
    (IsProcessV0Call /\ trace # <<>>) =>
       LET info == trace[1].outcome
           present == info = "executable"
           withClient == call.remainingAccounts # <<>>
       IN /\ trace[1].op = "getAccountInfo"
          /\ instructions # <<>>
          /\ LET accounts == instructions[Len(instructions)].accounts IN
             /\ instructions[Len(instructions)].method = "processMessage"
             /\ (accounts.gasHandlerProgram # NoValue) <=> present
             /\ (accounts.gasConfig # NoValue) <=> present
             /\ (accounts.gasPool # NoValue) <=> present
             /\ (accounts.clientGasConfig # NoValue) <=> (present /\ withClient)
             /\ present =>
                   /\ accounts.gasHandlerProgram = GasHandlerProgramId
                   /\ accounts.gasConfig.programId = GasHandlerProgramId
                   /\ accounts.gasPool.programId = GasHandlerProgramId
             /\ \A k \in 1..Len(sent) :
                   sent[k].instructions[Len(sent[k].instructions)].accounts = accounts
          /\ (info = "throw" /\ Len(trace) = 1) =>
                IF lookupTableAccount = NoValue
                THEN pc = "done" /\ result.error = LookupTableNotLoadedText
                ELSE pc = "await_getLatestBlockhash"

\* the account read threw and the operation went on to send an envelope
\* whose gas handler slots are all null
C28_Witness ==
    /\ IsProcessV0Call
    /\ trace # <<>>
    /\ trace[1].outcome = "throw"
    /\ call.remainingAccounts # <<>>
    /\ sent # <<>>
    /\ sent[1].instructions[Len(sent[1].instructions)].accounts.gasPool = NoValue
    /\ sent[1].instructions[Len(sent[1].instructions)].accounts.clientGasConfig = NoValue

\* the call in progress runs under executeWithRetry
IsRetriedCall == call # NoValue /\ call.variant \in {"std", "v0"} /\ ~IsStandardMessageCall

\* C29: when a call under executeWithRetry has returned a value, the closure
\* was invoked k times for some k from 1 to the cap, the first k - 1
\* invocations each ended in a caught retryable failure followed by one sleep,
\* the k-th ended with the confirmation that is the last event of the call,
\* and the value returned is the signature of the envelope of the k-th
\* invocation.
C29_StopsAtFirstSuccess ==
    (IsRetriedCall /\ pc = "done" /\ result.ok) =>
       LET k == Cardinality(InvokeEvents)
           last == trace[Len(trace)]
       IN /\ k \in 1..call.maxRetries
          /\ attempt = k
          /\ \A i \in InvokeEvents :
                trace[i].num = Cardinality({j \in InvokeEvents : j <= i})
          /\ Cardinality(CaughtEvents) = k - 1
          /\ Cardinality(SleepEvents) = k - 1
          /\ \A i \in CaughtEvents :
                /\ trace[i].outcome = "retry"
                /\ \E j \in InvokeEvents : j > i
          /\ \A i \in SleepEvents : \E j \in InvokeEvents : j > i
          /\ last.op = "confirmTransaction"
          /\ last.outcome # "throw"
          /\ call.variant = "std" => last.outcome = "ok"
          /\ last.num = result.value
          /\ sent # <<>>
          /\ result.value = sent[Len(sent)].signature

\* initializeGateway returned the signature of its third attempt after two
\* retryable failures
C29_Witness ==
    /\ call # NoValue
    /\ call.op = "initializeGateway"
    /\ pc = "done"
    /\ result.ok
    /\ attempt = 3
    /\ Cardinality(CaughtEvents) = 2
    /\ result.value = sent[Len(sent)].signature

IsCreateCall ==
    /\ call # NoValue
    /\ call.op \in {"createTxPdaWithSignatures", "createTxPdaWithSignaturesV0"}

\* C30: for the same message and the same list of 1 to 3 signers the two
\* variants of the create operation build the same instruction list: every
\* envelope createTxPdaWithSignatures sends carries the list
\* createTxPdaWithSignaturesV0 builds from the arguments of the call, and
\* every envelope createTxPdaWithSignaturesV0 sends carries the list
\* createTxPdaWithSignatures builds from them; the envelopes differ in their
\* encoding.
C30_CreateVariantsBuildSameList ==
    (IsCreateCall /\ Len(call.signatures) \in 1..MAX_SIGNATURES_V0) =>
       LET std == BuildCreateTxPda(call.message, call.signatures)
           v0 == BuildCreateTxPdaV0(call.message, call.signatures)
       IN /\ std = v0
          /\ \A k \in 1..Len(sent) :
                /\ std.ok
                /\ sent[k].instructions =
                      (IF call.variant = "std" THEN v0.value ELSE std.value)
                /\ sent[k].version = (IF call.variant = "std" THEN "legacy" ELSE "v0")
                /\ Len(sent[k].instructions) = Len(call.signatures) + 1

\* createTxPdaWithSignaturesV0 has sent an envelope for three signers
C30_Witness ==
    /\ call # NoValue
    /\ call.op = "createTxPdaWithSignaturesV0"
    /\ Len(call.signatures) = 3
    /\ sent # <<>>
    /\ sent[1].instructions = BuildCreateTxPda(call.message, call.signatures).value

(***************************************************************************)
(* Properties of a Compact submission beside a concurrent loadLookupTable, *)
(* checked under ConcurrentSpec.                                           *)
(***************************************************************************)
\* C27: all envelopes of one Compact submission are compiled against the
\* same lookup table, whatever a concurrent loadLookupTable call does.
C27_OneTablePerSubmission ==
    IsV0Call => \A i, j \in 1..Len(sent) : sent[i].table = sent[j].table

====
